---- MODULE Spec2Model ----
(***************************************************************************)
(* Session orchestration of hcaptcha_challenger: AgentV.wait_for_challenge *)
(* (agent/agent.py) driven by the two queues that PilotCore.task_handler   *)
(* (agent/pilot/core.py) fills from intercepted network responses.         *)
(*                                                                         *)
(* The coroutine is cut at its await points: one action per stretch of     *)
(* code that runs without yielding to the event loop.  task_handler runs   *)
(* on the same loop and may be interleaved at every cut.  Calls into       *)
(* Playwright (page.reload, page.evaluate, asyncio.sleep) are taken to     *)
(* return; their only modelled effect is the count of reloads.             *)
(*                                                                         *)
(* The quota ledger, QuotaManager (agent/quota_manager.py), is modelled    *)
(* beside it: one action per public method, each a single synchronous      *)
(* call, with the UTC clock advancing between calls.                       *)
(***************************************************************************)
EXTENDS Integers, Sequences, FiniteSets, TLC

\* ---------------------------------------------------------------- bounds
\* Largest number of verdicts the interceptor may leave in the verdict queue.
MaxVerdictQueue == 2
\* Largest number of payloads the interceptor may leave in the payload queue.
MaxPayloadQueue == 1
\* MAX_CHALLENGE_ATTEMPTS ranges over 1..MaxAttemptsCfg.
MaxAttemptsCfg == 3
\* MAX_RESETS ranges over 0..MaxResetsCfg.
MaxResetsCfg == 1

\* The ledger clock is read MaxTicks times after the first reading.
MaxTicks == 2
\* Largest number of mark_* calls in a run that uses every credential.
MaxMarks == 3
\* Largest number of mark_* calls in a run that uses one credential.
MaxKeyMarks == 7
\* ledger calls followed per process when two processes share the database
MaxProcCalls == 2
\* attempts a provider makes on one request before the error leaves the call
\* (the providers are decorated with 30 and 15)
MaxProviderAttempts == 2
\* ledger marks followed while one tool is dispatched
MaxDispatchMarks == 4
\* credentials and models of the largest provider whose ring is followed
MaxRingKeys == 3
MaxRingModels == 4
\* ledger marks followed while one provider call spends its attempts
MaxRetryMarks == 2
\* ledger marks followed around the pre-check of one provider
MaxPreCheckMarks == 4

\* ------------------------------------------------------------ data values
\* SolveState (agent/config.py)
SolveState == {"INIT", "CHALLENGE_PENDING", "CHALLENGING", "SUBMITTED", "SUCCESS", "FAILURE"}

\* the two states that end the while loop of wait_for_challenge
Terminal == {"SUCCESS", "FAILURE"}

\* Decoded CaptchaPayload objects (opaque), and the None payload.
Payloads == {"p1", "p2"}

None == "None"

\* CaptchaResponse objects: only is_pass is read by the controller.
Verdicts == [is_pass : BOOLEAN]

\* ------------------------------------------------------- ledger values
\* SQL NULL / Python None in a column of the ledger.
NULL == [null |-> TRUE]

\* AgentConfig.GEMINI_API_KEYS, in configured order.
GEMINI_API_KEYS == <<"key_a", "key_b">>

\* Credentials the ledger is asked about.
ApiKeys == {GEMINI_API_KEYS[i] : i \in 1..Len(GEMINI_API_KEYS)}

\* RoboticArm._get_available_model_and_keys: the priority of the models.
model_priority == <<"gemini-2.5-flash", "gemini-2.5-flash-lite", "gemini-3-flash">>

\* A model that a configuration may name and the priority list lacks.
OtherModel == "gemini-3-flash-preview"

\* AgentConfig.GROQ_API_KEYS, in configured order.
GROQ_API_KEYS == <<"groq_a", "groq_b">>

\* The model a caller of the ledger names where the choice of model plays no
\* part: the default of every *_MODEL setting.
Models == {"gemini-2.5-flash"}

\* Every model name the ledger is asked about.
AllModels == {model_priority[i] : i \in 1..Len(model_priority)} \cup {OtherModel}

\* QuotaManager._generate_key_id: the first 12 hex digits of the credential's
\* SHA-256 joined to the model name; distinct credentials are taken to have
\* distinct prefixes.
generate_key_id(api_key, model) == <<api_key, model>>

KeyIds == {generate_key_id(a, m) : a \in ApiKeys, m \in AllModels}

\* datetime.isoformat() of a UTC instant given in seconds: the text carries
\* the calendar fields; fromisoformat() reads them back.
isoformat(t) ==
    [day |-> t \div 86400, hour |-> (t % 86400) \div 3600,
     minute |-> (t % 3600) \div 60, second |-> t % 60]

fromisoformat(text) == text.day * 86400 + text.hour * 3600 + text.minute * 60 + text.second

\* now_utc.replace(hour=8, minute=0, second=0, microsecond=0)
reset_time_today(t) == fromisoformat([isoformat(t) EXCEPT !.hour = 8, !.minute = 0, !.second = 0])

\* The first clock reading: 07:59:30 UTC on day 1; later readings follow
\* every 30 seconds, so the 08:00 boundary is crossed by the first tick.
FirstReading == 86400 + 8 * 3600 - 30

Clock == {FirstReading + 30 * i : i \in 0..MaxTicks}

\* Retry delays a provider extracts from a rate-limit error (seconds).
RetryDelays == {15}

\* A row of the quotas table as the column defaults create it.
DefaultRow ==
    [exhausted_at |-> NULL, failure_count |-> 0, last_failure |-> NULL,
     temp_exhausted_until |-> NULL, backoff_count |-> 0]

\* No row for the key in the quotas table.
NoRow == [row |-> FALSE]

\* What has been called for a key: the last mark_* call with the cooldown end
\* it wrote and the last_reset value it ran under; the mark_exhausted calls
\* since construction, the last_reset value at the first of them, and whether
\* a mark_success was made; the mark_failure calls since the last
\* mark_success and the last_reset value at the first of them.
NoCalls ==
    [last_mark |-> [method |-> "none"],
     exhausted_calls |-> 0, exhausted_epoch |-> NULL, succeeded |-> FALSE,
     failure_calls |-> 0, failure_epoch |-> NULL]

\* An upsert that replaces the row.
RowOrDefault_replace(q, k) == DefaultRow

\* The row an upsert starts from.
RowOrDefault(q, k) == IF q[k] = NoRow THEN DefaultRow ELSE q[k]

VARIABLES
    \* AgentConfig
    MAX_CHALLENGE_ATTEMPTS, MAX_RESETS, RETRY_ON_FAILURE,
    \* AgentV / RoboticArm / PilotCore fields
    state, reset_count, challenge_attempts, captcha_payload, cr_list,
    captcha_response_queue, captcha_payload_queue,
    \* position of wait_for_challenge and its locals
    pc, found, result, race, signal,
    \* how the ignore-list check of the current dispatch ended
    ignore_check,
    \* calls made on collaborators: dispatches started in the session; in the
    \* current iteration, page.reload and click_checkbox called, the click raised
    dispatch_calls, page_reloaded, checkbox_clicked, click_raised,
    \* _solve_captcha_flow coroutines started and neither finished nor cancelled
    in_flight,
    \* res_task has taken a verdict from the verdict queue in this session
    verdict_dequeued,
    \* entries of the verdict queue that were in it when the session, or the
    \* current pass of the loop, began
    stale_verdicts,
    \* QuotaManager: the UTC clock (seconds), the quotas table, the
    \* last_reset row of metadata
    now, quotas, last_reset,
    \* calls made on the ledger: the last one with what it returned, the
    \* number of mark_* calls, and per key what its callers have done so far
    last_call, marks, history,
    \* processes sharing the database: where each one is inside a ledger
    \* method with the locals it holds, and the calls each one has completed
    proc, calls,
    \* what the last _get_available_model_and_keys was asked and returned
    candidate,
    \* the provider of the tool: its ring, where its current call is, the
    \* identity and the outcome of its last request; and what the dispatch
    \* marked in the ledger after the last call of the tool
    provider, feedback

cfgVars == <<MAX_CHALLENGE_ATTEMPTS, MAX_RESETS, RETRY_ON_FAILURE>>

queueVars == <<captcha_response_queue, captcha_payload_queue>>

obsVars == <<ignore_check, dispatch_calls, in_flight, page_reloaded, checkbox_clicked, click_raised,
             verdict_dequeued>>

vars == <<MAX_CHALLENGE_ATTEMPTS, MAX_RESETS, RETRY_ON_FAILURE,
          state, reset_count, challenge_attempts, captcha_payload, cr_list,
          captcha_response_queue, captcha_payload_queue,
          pc, found, result, race, signal, ignore_check,
          dispatch_calls, in_flight, page_reloaded, checkbox_clicked, click_raised,
          verdict_dequeued, stale_verdicts, now, quotas, last_reset, last_call, marks, history,
          proc, calls, candidate,
          provider, feedback>>

\* the variables of the session, and those of the quota ledger
sessionVars == <<cfgVars, state, reset_count, challenge_attempts, captcha_payload, cr_list,
                 queueVars, pc, found, result, race, signal, obsVars, stale_verdicts>>

ledgerVars == <<now, quotas, last_reset, last_call, marks, history>>

\* the processes that share the database file
Procs == {"proc_1", "proc_2"}

raceVars == <<proc, calls>>

armVars == <<candidate>>

\* what a step of the session, a call on the ledger, and a step of a process
\* sharing the database leave alone
dispatchVars == <<provider, feedback>>

outsideSession == <<ledgerVars, raceVars, armVars, dispatchVars>>

outsideLedger == <<sessionVars, raceVars, armVars, dispatchVars>>

outsideRace == <<sessionVars, armVars, dispatchVars>>

\* ------------------------------------------------------------------ Init
\* AgentV.__init__, PilotCore.__init__, RoboticArm.__init__; nothing awaited yet.
Init ==
    /\ MAX_CHALLENGE_ATTEMPTS \in 1..MaxAttemptsCfg
    /\ MAX_RESETS \in 0..MaxResetsCfg
    /\ RETRY_ON_FAILURE \in BOOLEAN
    /\ state = "INIT"
    /\ reset_count = 0
    /\ challenge_attempts = 0
    /\ captcha_payload = None
    /\ cr_list = << >>
    /\ captcha_response_queue = << >>
    /\ captcha_payload_queue = << >>
    /\ pc = "idle"
    /\ found = "unset"
    /\ result = "none"
    /\ race = "none"
    /\ signal = "none"
    /\ ignore_check = "none"
    /\ dispatch_calls = 0
    /\ in_flight = 0
    /\ page_reloaded = FALSE
    /\ checkbox_clicked = FALSE
    /\ click_raised = FALSE
    /\ verdict_dequeued = FALSE
    /\ stale_verdicts = 0
    \* QuotaManager.__init__ on a new database, at the first clock reading
    /\ now = FirstReading
    /\ quotas = [k \in KeyIds |-> NoRow]
    /\ last_reset = isoformat(FirstReading)
    /\ last_call = [method |-> "__init__"]
    /\ marks = 0
    /\ history = [k \in KeyIds |-> NoCalls]
    \* no process is inside a ledger method
    /\ proc = [p \in Procs |-> [pc |-> "idle"]]
    /\ calls = [p \in Procs |-> << >>]
    \* the rotation scheduler has not been asked
    /\ candidate = [asked |-> FALSE]
    \* RoboticArm._init_reasoners has not run
    /\ provider = [constructed |-> FALSE]
    /\ feedback = [method |-> "none"]

\* variant: a drain that removes nothing
drain_nothing(queue) == queue

\* while not queue.empty(): queue.get_nowait()
drain(queue) == << >>

\* ------------------------------------------------- PilotCore.task_handler
\* "/getcaptcha/" answered with JSON: a passing verdict replaces whatever the
\* verdict queue holds; a body with request_config is a payload (None when
\* building the CaptchaPayload raises); any other body changes nothing.
HandleGetCaptchaJson(kind, p) ==
    /\ CASE kind = "pass" ->
              /\ captcha_response_queue' = Append(drain(captcha_response_queue), [is_pass |-> TRUE])
              /\ stale_verdicts' = IF drain(captcha_response_queue) = << >> THEN 0 ELSE stale_verdicts
              /\ UNCHANGED captcha_payload_queue
         [] kind = "request_config" ->
              /\ Len(captcha_payload_queue) < MaxPayloadQueue
              /\ captcha_payload_queue' = Append(captcha_payload_queue, p)
              /\ UNCHANGED <<captcha_response_queue, stale_verdicts>>
    /\ UNCHANGED <<outsideSession, cfgVars, state, reset_count, challenge_attempts, captcha_payload, cr_list,
                   pc, found, result, race, signal, obsVars>>

\* "/getcaptcha/" answered with a binary body: the page-side hsw decode gives
\* a payload, or null, or processing raises; the last two enqueue None.
HandleGetCaptchaBinary(decoded) ==
    /\ Len(captcha_payload_queue) < MaxPayloadQueue
    /\ captcha_payload_queue' = Append(captcha_payload_queue, decoded)
    /\ UNCHANGED <<outsideSession, cfgVars, state, reset_count, challenge_attempts, captcha_payload, cr_list,
                   captcha_response_queue, pc, found, result, race, signal, obsVars, stale_verdicts>>

\* "/checkcaptcha/": the verdict is appended to the verdict queue.
HandleCheckCaptcha(v) ==
    /\ Len(captcha_response_queue) < MaxVerdictQueue
    /\ captcha_response_queue' = Append(captcha_response_queue, v)
    /\ UNCHANGED <<outsideSession, cfgVars, state, reset_count, challenge_attempts, captcha_payload, cr_list,
                   captcha_payload_queue, pc, found, result, race, signal, obsVars, stale_verdicts>>

task_handler ==
    \/ \E kind \in {"pass", "request_config"}, p \in Payloads \cup {None} : HandleGetCaptchaJson(kind, p)
    \/ \E decoded \in Payloads \cup {None} : HandleGetCaptchaBinary(decoded)
    \/ \E v \in Verdicts : HandleCheckCaptcha(v)

\* ------------------------------------------- AgentV.wait_for_challenge
\* state reset and queue flush that open every session
StartSession ==
    /\ pc = "idle"
    /\ state' = "INIT"
    /\ reset_count' = 0
    /\ challenge_attempts' = 0
    /\ captcha_response_queue' = drain(captcha_response_queue)
    /\ captcha_payload_queue' = drain(captcha_payload_queue)
    /\ stale_verdicts' = Len(captcha_response_queue')
    /\ pc' = "probe"
    /\ UNCHANGED <<outsideSession, cfgVars, captcha_payload, cr_list, found, result, race, signal, obsVars>>

\* variant: a probe that found nothing still enters the loop
AfterProbe_enter(f) == "loop"

\* where the coroutine goes once debug_find_captcha has answered
AfterProbe(f) == IF f THEN "loop" ELSE "returned"

\* found = await debug_find_captcha(); if not found: return FAILURE
DebugFindCaptcha(f) ==
    /\ pc = "probe"
    /\ found' = IF f THEN "yes" ELSE "no"
    /\ pc' = AfterProbe(f)
    /\ signal' = IF pc' = "returned" THEN "FAILURE" ELSE signal
    /\ UNCHANGED <<outsideSession, cfgVars, state, reset_count, challenge_attempts, captcha_payload, cr_list,
                   queueVars, result, race, obsVars, stale_verdicts>>

\* variant: the attempt counter is never advanced
NextAttempt_stuck(n) == n

\* self.challenge_attempts += 1
NextAttempt(n) == n + 1

\* variant: the limit is tested one attempt too late
OverAttemptLimit_late(n) == n > MAX_CHALLENGE_ATTEMPTS + 1

\* self.challenge_attempts > self.config.MAX_CHALLENGE_ATTEMPTS
OverAttemptLimit(n) == n > MAX_CHALLENGE_ATTEMPTS

\* variant: the budget is spent one reset too early
OverResetBudget_early(n) == n >= MAX_RESETS

\* variant: the budget is spent one reset too late
OverResetBudget_late(n) == n > MAX_RESETS + 1

\* variant: the budget is never tested
OverResetBudget_never(n) == FALSE

\* self.reset_count > self.config.MAX_RESETS
OverResetBudget(n) == n > MAX_RESETS

\* The head of the while loop up to the first await of the iteration: the
\* loop test, the attempt counter and its limit, and for INIT and
\* CHALLENGE_PENDING the flush of the verdict queue before the dispatch starts.
LoopCheck ==
    /\ pc = "loop"
    /\ result' = "none"
    /\ race' = "none"
    /\ ignore_check' = "none"
    /\ page_reloaded' = FALSE
    /\ checkbox_clicked' = FALSE
    /\ click_raised' = FALSE
    /\ IF state \in Terminal
       THEN /\ pc' = "finish"
            /\ UNCHANGED <<state, challenge_attempts, queueVars, dispatch_calls, in_flight, stale_verdicts>>
       ELSE /\ challenge_attempts' = NextAttempt(challenge_attempts)
            /\ IF OverAttemptLimit(challenge_attempts')
               THEN /\ state' = "FAILURE"
                    /\ pc' = "finish"
                    /\ UNCHANGED <<queueVars, dispatch_calls, in_flight, stale_verdicts>>
               ELSE /\ UNCHANGED state
                    /\ IF state \in {"INIT", "CHALLENGE_PENDING"}
                       THEN /\ captcha_response_queue' = drain(captcha_response_queue)
                            /\ stale_verdicts' = Len(captcha_response_queue')
                            /\ dispatch_calls' = dispatch_calls + 1
                            /\ in_flight' = in_flight + 1
                            /\ pc' = "review"
                            /\ UNCHANGED captcha_payload_queue
                       ELSE /\ pc' = IF state = "SUBMITTED" THEN "race" ELSE "loop"
                            /\ UNCHANGED <<queueVars, dispatch_calls, in_flight, stale_verdicts>>
    /\ UNCHANGED <<outsideSession, cfgVars, reset_count, captcha_payload, cr_list, found, signal,
                   verdict_dequeued>>

\* variant: asyncio.TimeoutError has no except clause and leaves the session
AfterDispatchTimeout_uncaught == "raised"

\* where the coroutine goes from the except asyncio.TimeoutError clause
AfterDispatchTimeout == "loop"

\* variant: a dispatch that timed out is left running
wait_for_done_detached(r, n) == IF r = "timeout" THEN n ELSE n - 1

\* asyncio.wait_for hands back the value or the exception of the coroutine
\* when it has ended, and on the time limit cancels it and raises
\* TimeoutError once the cancellation is done: the coroutine runs no more.
wait_for_done(r, n) == n - 1

\* What the loop does with the outcome r of
\* asyncio.wait_for(self._solve_captcha_flow(), timeout=120):
\* "true"/"false" are the returned value, "timeout" is asyncio.TimeoutError,
\* "error" any other exception.  clickRaises is whether click_checkbox raised.
\* page_reloaded and checkbox_clicked record the calls to page.reload and
\* click_checkbox made here.
OnDispatchOutcome(r, clickRaises) ==
    /\ result' = r
    /\ in_flight' = wait_for_done(r, in_flight)
    /\ CASE r = "true" ->
              /\ state' = "SUBMITTED"
              /\ pc' = "race"
              /\ UNCHANGED <<reset_count, page_reloaded, checkbox_clicked, click_raised>>
         [] r = "false" ->
              /\ reset_count' = reset_count + 1
              /\ pc' = "loop"
              /\ IF OverResetBudget(reset_count')
                 THEN /\ state' = "FAILURE"
                      /\ UNCHANGED <<page_reloaded, checkbox_clicked, click_raised>>
                 ELSE /\ page_reloaded' = TRUE
                      /\ checkbox_clicked' = TRUE
                      /\ click_raised' = clickRaises
                      /\ state' = "INIT"
         [] r \in {"timeout", "error"} ->
              /\ page_reloaded' = TRUE
              /\ state' = "INIT"
              /\ pc' = IF r = "timeout" THEN AfterDispatchTimeout ELSE "loop"
              /\ UNCHANGED <<reset_count, checkbox_clicked, click_raised>>

\* A review that takes a None payload for a payload like any other.
ReviewChallengeType_null_is_payload(typed, clickRaises) ==
    /\ pc = "review"
    /\ IF captcha_payload_queue = << >>
       THEN /\ OnDispatchOutcome("false", clickRaises)
            /\ UNCHANGED <<captcha_payload_queue, captcha_payload>>
       ELSE /\ captcha_payload_queue' = Tail(captcha_payload_queue)
            /\ captcha_payload' = Head(captcha_payload_queue)
            /\ IF typed
               THEN /\ state' = "CHALLENGING"
                    /\ pc' = "solve"
                    /\ UNCHANGED <<result, reset_count, in_flight, page_reloaded,
                                   checkbox_clicked, click_raised>>
               ELSE OnDispatchOutcome("false", clickRaises)
    /\ UNCHANGED <<outsideSession, cfgVars, challenge_attempts, cr_list, captcha_response_queue, found, race,
                   signal, ignore_check, dispatch_calls, verdict_dequeued, stale_verdicts>>

\* PilotCore.review_challenge_type, the first step of _solve_captcha_flow:
\* take the next payload (30 s); no payload, a None payload or an
\* undetermined type make the dispatch return False.
ReviewChallengeType(typed, clickRaises) ==
    /\ pc = "review"
    /\ IF captcha_payload_queue = << >>
       THEN /\ OnDispatchOutcome("false", clickRaises)
            /\ UNCHANGED <<captcha_payload_queue, captcha_payload>>
       ELSE /\ captcha_payload_queue' = Tail(captcha_payload_queue)
            /\ IF Head(captcha_payload_queue) = None
               THEN /\ OnDispatchOutcome("false", clickRaises)
                    /\ UNCHANGED captcha_payload
               ELSE /\ captcha_payload' = Head(captcha_payload_queue)
                    /\ IF typed
                       THEN /\ state' = "CHALLENGING"
                            /\ pc' = "solve"
                            /\ UNCHANGED <<result, reset_count, in_flight, page_reloaded,
                                           checkbox_clicked, click_raised>>
                       ELSE OnDispatchOutcome("false", clickRaises)
    /\ UNCHANGED <<outsideSession, cfgVars, challenge_attempts, cr_list, captcha_response_queue, found, race,
                   signal, ignore_check, dispatch_calls, verdict_dequeued, stale_verdicts>>

\* The outcomes r the dispatch can have once the ignore-list check ended as
\* ig: "skip" (the question is on the ignore list) returns False at once;
\* after "continue" or "timeout" (the 5 s limit, swallowed) solve_captcha runs
\* and its exceptions become False; "none" is a dispatch cut short before
\* the check ended, by the 120 s limit or by an exception.
DispatchOutcomes(ig) ==
    CASE ig = "skip" -> {"false"}
      [] ig \in {"continue", "timeout"} -> {"true", "false", "timeout"}
      [] OTHER -> {"timeout", "error"}

\* The rest of _solve_captcha_flow (ignore list, solve_captcha) and the
\* 120 s limit around the whole dispatch.
SolveCaptchaFlow(ig, r, clickRaises) ==
    /\ pc = "solve"
    /\ r \in DispatchOutcomes(ig)
    /\ ignore_check' = ig
    /\ OnDispatchOutcome(r, clickRaises)
    /\ UNCHANGED <<outsideSession, cfgVars, challenge_attempts, captcha_payload, cr_list, queueVars, found, race,
                   signal, dispatch_calls, verdict_dequeued, stale_verdicts>>

\* PilotCore.cache_validated_response: only a passing response is appended.
cache_validated_response(list, cr) == IF ~cr.is_pass THEN list ELSE Append(list, cr)

\* variant: any verdict object counts as passing
VerdictPasses_any(cr) == TRUE

\* if cr and cr.is_pass
VerdictPasses(cr) == cr.is_pass

\* variant: RETRY_ON_FAILURE is not consulted
FailedVerdictState_always(retry) == "INIT"

\* the state a verdict that does not pass leads to
FailedVerdictState(retry) == IF retry THEN "INIT" ELSE "FAILURE"

\* variant: a response timeout is retried like a failed verdict
ResponseTimeoutState_retry == "INIT"

\* variant: a response timeout leaves the state as it is
ResponseTimeoutState_stay == "SUBMITTED"

\* the state set when asyncio.wait returns with nothing done
ResponseTimeoutState == "FAILURE"

\* variant: the payload already held is kept
AcceptPayload_keep(old, new) == old

\* self.arm.captcha_payload = pay_task.result()
AcceptPayload(old, new) == new

\* The SUBMITTED block.  res_task and pay_task each take the head of their
\* queue as soon as it has one; asyncio.wait returns when one of them is done
\* or RESPONSE_TIMEOUT has passed, so `done` holds every task whose queue was
\* not empty at that moment and is empty only if both queues were.  pay_task
\* is looked at first.
AwaitVerdictOrPayload ==
    /\ pc = "race"
    /\ pc' = "loop"
    /\ LET resDone == captcha_response_queue # << >>
           payDone == captcha_payload_queue # << >>
       IN  /\ captcha_response_queue' = IF resDone THEN Tail(captcha_response_queue)
                                                   ELSE captcha_response_queue
           /\ captcha_payload_queue' = IF payDone THEN Tail(captcha_payload_queue)
                                                  ELSE captcha_payload_queue
           /\ verdict_dequeued' = (verdict_dequeued \/ resDone)
           /\ stale_verdicts' = IF resDone /\ stale_verdicts > 0 THEN stale_verdicts - 1 ELSE stale_verdicts
           /\ IF ~resDone /\ ~payDone
              THEN /\ race' = "timeout"
                   /\ state' = ResponseTimeoutState
                   /\ UNCHANGED <<reset_count, captcha_payload, cr_list>>
              ELSE IF payDone
              THEN /\ race' = "payload"
                   /\ reset_count' = reset_count + 1
                   /\ IF OverResetBudget(reset_count')
                      THEN /\ state' = "FAILURE"
                           /\ UNCHANGED captcha_payload
                      ELSE /\ captcha_payload' = AcceptPayload(captcha_payload,
                                                               Head(captcha_payload_queue))
                           /\ state' = "CHALLENGE_PENDING"
                   /\ UNCHANGED cr_list
              ELSE /\ race' = "verdict"
                   /\ IF VerdictPasses(Head(captcha_response_queue))
                      THEN /\ cr_list' = cache_validated_response(cr_list,
                                                                  Head(captcha_response_queue))
                           /\ state' = "SUCCESS"
                      ELSE /\ state' = FailedVerdictState(RETRY_ON_FAILURE)
                           /\ UNCHANGED cr_list
                   /\ UNCHANGED <<reset_count, captcha_payload>>
    /\ UNCHANGED <<outsideSession, cfgVars, challenge_attempts, found, result, signal, ignore_check,
                   dispatch_calls, in_flight, page_reloaded, checkbox_clicked, click_raised>>

\* except Exception around the SUBMITTED block
SubmittedWaitRaises ==
    /\ pc = "race"
    /\ race' = "error"
    /\ state' = "FAILURE"
    /\ pc' = "loop"
    /\ UNCHANGED <<outsideSession, cfgVars, reset_count, challenge_attempts, captcha_payload, cr_list, queueVars,
                   found, result, signal, obsVars, stale_verdicts>>

\* After the loop: the ChallengeSignal handed back to the caller.
ReturnSignal ==
    /\ pc = "finish"
    /\ signal' = IF state = "SUCCESS" THEN "SUCCESS" ELSE "FAILURE"
    /\ pc' = "returned"
    /\ UNCHANGED <<outsideSession, cfgVars, state, reset_count, challenge_attempts, captcha_payload, cr_list,
                   queueVars, found, result, race, obsVars, stale_verdicts>>

wait_for_challenge ==
    \/ StartSession
    \/ \E f \in BOOLEAN : DebugFindCaptcha(f)
    \/ LoopCheck
    \/ \E typed \in BOOLEAN, clickRaises \in BOOLEAN : ReviewChallengeType(typed, clickRaises)
    \/ \E ig \in {"none", "skip", "continue", "timeout"},
          r \in {"true", "false", "timeout", "error"}, clickRaises \in BOOLEAN :
          SolveCaptchaFlow(ig, r, clickRaises)
    \/ AwaitVerdictOrPayload
    \/ SubmittedWaitRaises
    \/ ReturnSignal

\* One session is followed from construction to its return; responses
\* intercepted after the return no longer reach any reader.
Next == (pc # "returned" /\ task_handler) \/ wait_for_challenge

Spec == Init /\ [][Next]_vars

\* The event loop runs the session coroutine whenever it can take a step:
\* every await in it is bounded by a timeout or returns.
FairSpec == Spec /\ WF_vars(wait_for_challenge)

\* ------------------------------------------------------- QuotaManager
\* A decision that forgets when the last reset was made.
should_reset_unstamped(t, lr) == lr = NULL \/ t >= reset_time_today(t)

\* _check_reset decides: no last_reset row, or the clock is at or past
\* today's 08:00 UTC and the last reset was before it.
should_reset(t, lr) ==
    \/ lr = NULL
    \/ t >= reset_time_today(t) /\ fromisoformat(lr) < reset_time_today(t)

\* _check_reset: a due reset deletes every row of quotas and stamps
\* last_reset with the current clock; otherwise nothing is written.
check_reset(q, lr, t) ==
    IF should_reset(t, lr)
    THEN [quotas |-> [k \in KeyIds |-> NoRow], last_reset |-> isoformat(t)]
    ELSE [quotas |-> q, last_reset |-> lr]

\* A check that still counts the instant the cooldown ends.
cooldown_active_inclusive(t, until) == t <= fromisoformat(until)

\* is_exhausted, step 2: the cooldown is still running.
cooldown_active(t, until) == t < fromisoformat(until)

\* A threshold that needs a fourth failure.
unstable_late(failure_count) == failure_count > 3

\* is_exhausted, step 3: the failure streak marks the key unstable.
unstable(failure_count) == failure_count >= 3

\* A backoff that keeps doubling.
backoff_seconds_uncapped(new_count) == 30 * (2 ^ (new_count - 1))

\* A clearing that also forgets the backoff.
expire_cooldown_all(row) == [row EXCEPT !.temp_exhausted_until = NULL, !.backoff_count = 0]

\* A clearing that also forgets the failure streak.
expire_cooldown_streak(row) == [row EXCEPT !.temp_exhausted_until = NULL, !.failure_count = 0]

\* is_exhausted, line 93: the expired cooldown is cleared.
expire_cooldown(row) == [row EXCEPT !.temp_exhausted_until = NULL]

\* mark_exhausted: the cooldown for the new backoff count.
backoff_seconds(new_count) ==
    IF 30 * (2 ^ (new_count - 1)) < 960 THEN 30 * (2 ^ (new_count - 1)) ELSE 960

\* A success that forgets the whole backoff.
recovered_backoff_reset(backoff_count) == 0

\* A recovery that is not held at zero.
recovered_backoff_unclamped(backoff_count) == backoff_count - 2

\* mark_success: the backoff count after a success.
recovered_backoff(backoff_count) == IF backoff_count - 2 > 0 THEN backoff_count - 2 ELSE 0

\* QuotaManager.__init__ on the existing database (PilotCore and
\* GeminiProvider each construct one): the tables exist, _check_reset runs.
OpenLedger ==
    /\ quotas' = check_reset(quotas, last_reset, now).quotas
    /\ last_reset' = check_reset(quotas, last_reset, now).last_reset
    /\ last_call' = [method |-> "__init__"]
    /\ UNCHANGED <<outsideLedger, now, marks, history>>

\* is_exhausted on the ledger (q, lr) at clock t: the reset check, then the
\* row is read: exhausted_at set, a running cooldown, or three failures answer
\* True; an expired cooldown is cleared on the way. The answer comes with the
\* ledger the call leaves behind.
exhausted_answer(q, lr, t, key_id) ==
    LET checked == check_reset(q, lr, t)
        row == checked.quotas[key_id]
        answer(b, q2) == [result |-> b, quotas |-> q2, last_reset |-> checked.last_reset]
    IN  IF row = NoRow
        THEN answer(FALSE, checked.quotas)
        ELSE IF row.exhausted_at # NULL
        THEN answer(TRUE, checked.quotas)
        ELSE IF row.temp_exhausted_until # NULL /\ cooldown_active(t, row.temp_exhausted_until)
        THEN answer(TRUE, checked.quotas)
        ELSE answer(unstable(row.failure_count),
                    IF row.temp_exhausted_until # NULL
                    THEN [checked.quotas EXCEPT ![key_id] = expire_cooldown(row)]
                    ELSE checked.quotas)

\* is_exhausted(api_key, model)
is_exhausted(api_key, model) ==
    LET key_id == generate_key_id(api_key, model)
        call == exhausted_answer(quotas, last_reset, now, key_id)
    IN  /\ last_reset' = call.last_reset
        /\ quotas' = call.quotas
        /\ last_call' = [method |-> "is_exhausted", key_id |-> key_id, result |-> call.result]
        /\ UNCHANGED <<outsideLedger, now, marks, history>>

\* mark_exhausted(api_key, model): backoff_count is read (0 without a row),
\* incremented, and written together with the new cooldown.
mark_exhausted(api_key, model) ==
    LET key_id == generate_key_id(api_key, model)
        current_count == IF quotas[key_id] = NoRow THEN 0 ELSE quotas[key_id].backoff_count
        new_count == current_count + 1
        until == isoformat(now + backoff_seconds(new_count))
    IN  /\ quotas' = [quotas EXCEPT ![key_id] =
                         [RowOrDefault(quotas, key_id) EXCEPT !.temp_exhausted_until = until,
                                                              !.backoff_count = new_count]]
        /\ last_call' = [method |-> "mark_exhausted", key_id |-> key_id]
        /\ marks' = marks + 1
        /\ history' = [history EXCEPT ![key_id] =
                          [@ EXCEPT !.last_mark = [method |-> "mark_exhausted", until |-> until,
                                                   epoch |-> last_reset],
                                    !.exhausted_calls = @ + 1,
                                    !.exhausted_epoch =
                                        IF history[key_id].exhausted_calls = 0 THEN last_reset ELSE @]]
        /\ UNCHANGED <<outsideLedger, now, last_reset>>

\* mark_temporary_exhaustion(api_key, model, seconds)
mark_temporary_exhaustion(api_key, model, seconds) ==
    LET key_id == generate_key_id(api_key, model)
        until == isoformat(now + seconds)
    IN  /\ quotas' = [quotas EXCEPT ![key_id] =
                         [RowOrDefault(quotas, key_id) EXCEPT !.temp_exhausted_until = until]]
        /\ last_call' = [method |-> "mark_temporary_exhaustion", key_id |-> key_id]
        /\ marks' = marks + 1
        /\ history' = [history EXCEPT ![key_id].last_mark =
                          [method |-> "mark_temporary_exhaustion", until |-> until,
                           epoch |-> last_reset]]
        /\ UNCHANGED <<outsideLedger, now, last_reset>>

\* mark_failure(api_key, model)
mark_failure(api_key, model) ==
    LET key_id == generate_key_id(api_key, model)
        old == RowOrDefault(quotas, key_id)
    IN  /\ quotas' = [quotas EXCEPT ![key_id] =
                         [old EXCEPT !.failure_count = old.failure_count + 1,
                                     !.last_failure = isoformat(now)]]
        /\ last_call' = [method |-> "mark_failure", key_id |-> key_id]
        /\ marks' = marks + 1
        /\ history' = [history EXCEPT ![key_id] =
                          [@ EXCEPT !.last_mark = [method |-> "mark_failure", epoch |-> last_reset],
                                    !.failure_calls = @ + 1,
                                    !.failure_epoch =
                                        IF history[key_id].failure_calls = 0 THEN last_reset ELSE @]]
        /\ UNCHANGED <<outsideLedger, now, last_reset>>

\* mark_success(api_key, model): an UPDATE, so a key without a row gets none.
mark_success(api_key, model) ==
    LET key_id == generate_key_id(api_key, model)
    IN  /\ quotas' = IF quotas[key_id] = NoRow
                     THEN quotas
                     ELSE [quotas EXCEPT ![key_id] =
                              [@ EXCEPT !.failure_count = 0,
                                        !.last_failure = NULL,
                                        !.temp_exhausted_until = NULL,
                                        !.backoff_count = recovered_backoff(@)]]
        /\ last_call' = [method |-> "mark_success", key_id |-> key_id]
        /\ marks' = marks + 1
        /\ history' = [history EXCEPT ![key_id] =
                          [@ EXCEPT !.last_mark = [method |-> "mark_success", epoch |-> last_reset],
                                    !.succeeded = TRUE,
                                    !.failure_calls = 0,
                                    !.failure_epoch = NULL]]
        /\ UNCHANGED <<outsideLedger, now, last_reset>>

\* Time passes between two calls.
Tick ==
    /\ now < FirstReading + 30 * MaxTicks
    /\ now' = now + 30
    /\ UNCHANGED <<outsideLedger, quotas, last_reset, last_call, marks, history>>

\* Every credential is in use; MaxMarks mark_* calls are followed.
LedgerNext ==
    \/ OpenLedger
    \/ \E a \in ApiKeys, m \in Models : is_exhausted(a, m)
    \/ marks < MaxMarks /\ \E a \in ApiKeys, m \in Models : mark_exhausted(a, m)
    \/ marks < MaxMarks /\ \E a \in ApiKeys, m \in Models, seconds \in RetryDelays :
                               mark_temporary_exhaustion(a, m, seconds)
    \/ marks < MaxMarks /\ \E a \in ApiKeys, m \in Models : mark_failure(a, m)
    \/ marks < MaxMarks /\ \E a \in ApiKeys, m \in Models : mark_success(a, m)
    \/ Tick

\* One credential is in use; MaxKeyMarks mark_* calls are followed.
KeyNext ==
    \/ OpenLedger
    \/ \E m \in Models : is_exhausted("key_a", m)
    \/ marks < MaxKeyMarks /\ \E m \in Models : mark_exhausted("key_a", m)
    \/ marks < MaxKeyMarks /\ \E m \in Models, seconds \in RetryDelays :
                                  mark_temporary_exhaustion("key_a", m, seconds)
    \/ marks < MaxKeyMarks /\ \E m \in Models : mark_failure("key_a", m)
    \/ marks < MaxKeyMarks /\ \E m \in Models : mark_success("key_a", m)
    \/ Tick

\* The ledger on its own: the session has not started, and its configuration,
\* which no method of the ledger reads, is fixed.
LedgerInit ==
    /\ Init
    /\ MAX_CHALLENGE_ATTEMPTS = MaxAttemptsCfg
    /\ MAX_RESETS = MaxResetsCfg
    /\ RETRY_ON_FAILURE

LedgerSpec == LedgerInit /\ [][LedgerNext]_vars

KeySpec == LedgerInit /\ [][KeyNext]_vars

\* ------------------------------- QuotaManager shared by several processes
\* Every process opens its own connection to the same database file. A
\* statement that writes runs under the database write lock and is committed
\* before another writer proceeds; a SELECT holds no lock once its row has
\* been fetched, and Python code between two statements holds none.

\* the key both processes work on
RaceKey == generate_key_id("key_a", "gemini-2.5-flash")

\* An upsert that stores the inserted count on conflict too.
upsert_failure_excluded(row, stamp) ==
    [(IF row = NoRow THEN DefaultRow ELSE row) EXCEPT !.failure_count = 1, !.last_failure = stamp]

\* mark_failure, the statement: INSERT (key_id, 1, stamp), and on conflict
\* failure_count = failure_count + 1 with the new last_failure.
upsert_failure(row, stamp) ==
    IF row = NoRow
    THEN [DefaultRow EXCEPT !.failure_count = 1, !.last_failure = stamp]
    ELSE [row EXCEPT !.failure_count = row.failure_count + 1, !.last_failure = stamp]

\* mark_success, the statement: an UPDATE of the key's row, if there is one.
update_success(row) ==
    IF row = NoRow
    THEN NoRow
    ELSE [row EXCEPT !.failure_count = 0,
                     !.last_failure = NULL,
                     !.temp_exhausted_until = NULL,
                     !.backoff_count = recovered_backoff(row.backoff_count)]

\* mark_exhausted, the statement: INSERT (key_id, until, new_count), and on
\* conflict both columns take the values computed by the caller.
upsert_backoff(row, until, new_count) ==
    [(IF row = NoRow THEN DefaultRow ELSE row) EXCEPT !.temp_exhausted_until = until,
                                                     !.backoff_count = new_count]

\* mark_exhausted up to the INSERT: the SELECT of backoff_count (0 without a
\* row), new_count and the cooldown computed from it and from the clock.
SelectBackoff(p) ==
    LET row == quotas[RaceKey]
        current_count == IF row = NoRow THEN 0 ELSE row.backoff_count
        new_count == current_count + 1
    IN  /\ proc[p].pc = "idle"
        /\ proc' = [proc EXCEPT ![p] = [pc |-> "mark_exhausted", new_count |-> new_count, at |-> now,
                                        until |-> isoformat(now + backoff_seconds(new_count))]]
        /\ UNCHANGED <<outsideRace, ledgerVars, calls>>

\* mark_exhausted, the INSERT and the commit
UpsertBackoff(p) ==
    /\ proc[p].pc = "mark_exhausted"
    /\ quotas' = [quotas EXCEPT ![RaceKey] = upsert_backoff(@, proc[p].until, proc[p].new_count)]
    /\ calls' = [calls EXCEPT ![p] = Append(@, [method |-> "mark_exhausted", at |-> proc[p].at])]
    /\ proc' = [proc EXCEPT ![p] = [pc |-> "idle"]]
    /\ marks' = marks + 1
    /\ UNCHANGED <<outsideRace, now, last_reset, last_call, history>>

\* mark_failure up to the INSERT: the clock is read
StampFailure(p) ==
    /\ proc[p].pc = "idle"
    /\ proc' = [proc EXCEPT ![p] = [pc |-> "mark_failure", stamp |-> isoformat(now)]]
    /\ UNCHANGED <<outsideRace, ledgerVars, calls>>

\* mark_failure, the INSERT and the commit (the SELECT after it only feeds
\* the log)
UpsertFailure(p) ==
    /\ proc[p].pc = "mark_failure"
    /\ quotas' = [quotas EXCEPT ![RaceKey] = upsert_failure(@, proc[p].stamp)]
    /\ calls' = [calls EXCEPT ![p] = Append(@, [method |-> "mark_failure", stamp |-> proc[p].stamp])]
    /\ proc' = [proc EXCEPT ![p] = [pc |-> "idle"]]
    /\ marks' = marks + 1
    /\ UNCHANGED <<outsideRace, now, last_reset, last_call, history>>

\* mark_success: one UPDATE and the commit
UpdateSuccess(p) ==
    /\ proc[p].pc = "idle"
    /\ quotas' = [quotas EXCEPT ![RaceKey] = update_success(@)]
    /\ calls' = [calls EXCEPT ![p] = Append(@, [method |-> "mark_success"])]
    /\ marks' = marks + 1
    /\ UNCHANGED <<outsideRace, now, last_reset, last_call, history, proc>>

\* Two processes call the mark methods on one key, MaxProcCalls calls each.
RaceNext ==
    \/ \E p \in Procs : Len(calls[p]) < MaxProcCalls /\ SelectBackoff(p)
    \/ \E p \in Procs : UpsertBackoff(p)
    \/ \E p \in Procs : Len(calls[p]) < MaxProcCalls /\ StampFailure(p)
    \/ \E p \in Procs : UpsertFailure(p)
    \/ \E p \in Procs : Len(calls[p]) < MaxProcCalls /\ UpdateSuccess(p)
    \/ Tick

RaceSpec == LedgerInit /\ [][RaceNext]_vars

\* is_exhausted up to its UPDATE: the reset check, then the SELECT of the
\* key's row.  Only a row whose cooldown has run out leads to the UPDATE;
\* every other row, or none, answers at once.
SelectQuota(p) ==
    /\ proc[p].pc = "idle"
    /\ \E checked \in {check_reset(quotas, last_reset, now)} :
       \E row \in {checked.quotas[RaceKey]} :
        /\ quotas' = checked.quotas
        /\ last_reset' = checked.last_reset
        /\ IF /\ row # NoRow
              /\ row.exhausted_at = NULL
              /\ row.temp_exhausted_until # NULL
              /\ ~cooldown_active(now, row.temp_exhausted_until)
           THEN /\ proc' = [proc EXCEPT ![p] = [pc |-> "is_exhausted", failure_count |-> row.failure_count,
                                                temp_exhausted_until |-> row.temp_exhausted_until]]
                /\ UNCHANGED calls
           ELSE /\ calls' = [calls EXCEPT ![p] = Append(@, [method |-> "is_exhausted", cleared |-> FALSE])]
                /\ UNCHANGED proc
    /\ UNCHANGED <<outsideRace, now, last_call, marks, history>>

\* is_exhausted, the UPDATE that clears the cooldown, and the commit
ClearCooldown(p) ==
    /\ proc[p].pc = "is_exhausted"
    /\ quotas' = [quotas EXCEPT ![RaceKey] = IF @ = NoRow THEN NoRow ELSE expire_cooldown(@)]
    /\ calls' = [calls EXCEPT ![p] = Append(@, [method |-> "is_exhausted", cleared |-> TRUE])]
    /\ proc' = [proc EXCEPT ![p] = [pc |-> "idle"]]
    /\ UNCHANGED <<outsideRace, now, last_reset, last_call, marks, history>>

\* mark_temporary_exhaustion: the clock is read and one upsert writes the
\* cooldown
UpsertCooldown(p, seconds) ==
    /\ proc[p].pc = "idle"
    /\ quotas' = [quotas EXCEPT ![RaceKey] =
                     [RowOrDefault(quotas, RaceKey) EXCEPT !.temp_exhausted_until = isoformat(now + seconds)]]
    /\ calls' = [calls EXCEPT ![p] = Append(@, [method |-> "mark_temporary_exhaustion"])]
    /\ marks' = marks + 1
    /\ UNCHANGED <<outsideRace, now, last_reset, last_call, history, proc>>

\* Two processes ask about one key and cool it down, MaxProcCalls calls
\* each, while time passes.
CooldownRaceNext ==
    \/ \E p \in Procs : Len(calls[p]) < MaxProcCalls /\ SelectQuota(p)
    \/ \E p \in Procs : ClearCooldown(p)
    \/ \E p \in Procs, seconds \in RetryDelays : Len(calls[p]) < MaxProcCalls /\ UpsertCooldown(p, seconds)
    \/ \E p \in Procs : Len(calls[p]) < MaxProcCalls /\ SelectBackoff(p)
    \/ \E p \in Procs : UpsertBackoff(p)
    \/ Tick

CooldownRaceSpec == LedgerInit /\ [][CooldownRaceNext]_vars

\* --------------------------- RoboticArm._get_available_model_and_keys
\* A preferred model that is not moved to the front.
priority_order_unmoved(preferred_model) ==
    IF preferred_model = None \/ \E i \in 1..Len(model_priority) : model_priority[i] = preferred_model
    THEN model_priority
    ELSE <<preferred_model>> \o model_priority

\* the models in the order they are tried: the preferred one, when given,
\* then the others of model_priority
priority_order(preferred_model) ==
    IF preferred_model = None
    THEN model_priority
    ELSE <<preferred_model>> \o SelectSeq(model_priority, LAMBDA m : m # preferred_model)

\* A filter that stops at the first key that is not exhausted.
keep_available_first(available_keys, key_str) ==
    IF available_keys = << >> THEN <<key_str>> ELSE available_keys

\* available_keys.append(key_str)
keep_available(available_keys, key_str) == Append(available_keys, key_str)

RECURSIVE available_keys_for(_, _, _, _, _, _)
\* the inner loop: is_exhausted is asked for every configured key in turn,
\* each call working on the ledger the one before left
available_keys_for(q, lr, t, model, api_keys, available_keys) ==
    IF api_keys = << >>
    THEN [keys |-> available_keys, quotas |-> q, last_reset |-> lr]
    ELSE LET call == exhausted_answer(q, lr, t, generate_key_id(Head(api_keys), model))
         IN  available_keys_for(call.quotas, call.last_reset, t, model, Tail(api_keys),
                                IF call.result THEN available_keys
                                ELSE keep_available(available_keys, Head(api_keys)))

\* A fallback that offers the model tried last.
fallback_last(order) == [model |-> order[Len(order)], keys |-> <<GEMINI_API_KEYS[1]>>]

\* the fallback: the first model of the order with the first configured key
fallback(order) == [model |-> order[1], keys |-> <<GEMINI_API_KEYS[1]>>]

RECURSIVE first_available(_, _, _, _, _)
\* the outer loop over the models still to try, then the fallback
first_available(q, lr, t, order, rest) ==
    IF rest = << >>
    THEN [model |-> fallback(order).model, keys |-> fallback(order).keys,
          quotas |-> q, last_reset |-> lr]
    ELSE LET found_keys == available_keys_for(q, lr, t, Head(rest), GEMINI_API_KEYS, << >>)
         IN  IF found_keys.keys # << >>
             THEN [model |-> Head(rest), keys |-> found_keys.keys,
                   quotas |-> found_keys.quotas, last_reset |-> found_keys.last_reset]
             ELSE first_available(found_keys.quotas, found_keys.last_reset, t, order, Tail(rest))

\* _get_available_model_and_keys(preferred_model): no await inside, so the
\* session's own event loop runs it in one piece.
get_available_model_and_keys(preferred_model) ==
    \E chosen \in {first_available(quotas, last_reset, now, priority_order(preferred_model),
                                    priority_order(preferred_model))} :
        /\ candidate' = [asked |-> TRUE, preferred_model |-> preferred_model,
                         model |-> chosen.model, keys |-> chosen.keys]
        /\ quotas' = chosen.quotas
        /\ last_reset' = chosen.last_reset
        /\ last_call' = [method |-> "is_exhausted"]
        /\ UNCHANGED <<sessionVars, raceVars, dispatchVars, now, marks, history>>

\* the preferred models a caller passes: a *_MODEL setting or nothing
PreferredModels == AllModels \cup {None}

\* ------------------------------------ GeminiProvider and GroqProvider
\* variant: the model is advanced with every credential
rotate_key_lockstep(p) ==
    [p EXCEPT !.key_index = (p.key_index + 1) % Len(p.api_keys),
              !.model_index = (p.model_index + 1) % Len(p.models)]

\* rotate_key / rotate_model on the ring of a provider: the next key, and the
\* next model when the keys wrap or when there is one key only.
rotate_key(p) ==
    LET keys == Len(p.api_keys)
        models == Len(p.models)
        next_key == (p.key_index + 1) % keys
        next_model == (p.model_index + 1) % models
    IN  IF keys > 1
        THEN [p EXCEPT !.key_index = next_key,
                       !.model_index = IF next_key = 0 /\ models > 1 THEN next_model ELSE @]
        ELSE IF models > 1
        THEN [p EXCEPT !.model_index = next_model]
        ELSE p

\* self._api_keys[self._key_index], self.model
current_identity(p) == [key |-> p.api_keys[p.key_index + 1], model |-> p.models[p.model_index + 1]]

\* stop_after_attempt of the two decorated methods
GeminiStopAfterAttempt == 30

GroqStopAfterAttempt == 15

stop_after_attempt(kind) == IF kind = "groq" THEN GroqStopAfterAttempt ELSE GeminiStopAfterAttempt

\* variant: a retry without a stop condition
after_raise_forever(p) == [p EXCEPT !.pc = "attempt", !.attempt_number = @ + 1]

\* tenacity's @retry around an attempt that raised: the next attempt, or the
\* error leaves the call once the attempts are spent.
after_raise(p) ==
    IF p.attempt_number < p.stop
    THEN [p EXCEPT !.pc = "attempt", !.attempt_number = @ + 1]
    ELSE [p EXCEPT !.pc = "raised"]

\* RoboticArm._init_reasoners: the tool is given its provider, its keys and
\* the model of its setting; the ring starts at the first key.  A call of
\* this provider is followed for its first MaxProviderAttempts attempts.
init_reasoners(ai_provider, model) ==
    /\ ~provider.constructed
    /\ provider' = [constructed |-> TRUE, kind |-> ai_provider,
                    api_keys |-> IF ai_provider = "groq" THEN GROQ_API_KEYS ELSE GEMINI_API_KEYS,
                    models |-> <<model>>, key_index |-> 0, model_index |-> 0,
                    pc |-> "idle", attempt_number |-> 0, stop |-> MaxProviderAttempts,
                    used |-> NULL, outcome |-> "none", cooled |-> NULL]
    /\ UNCHANGED <<sessionVars, raceVars, ledgerVars, armVars, feedback>>

\* The tool hands the request to its provider, whose decorated method starts
\* its first attempt.
tool_call(p) ==
    [p EXCEPT !.pc = "attempt", !.attempt_number = 1, !.used = NULL, !.outcome = "none", !.cooled = NULL]

\* handle_binary up to the call of the tool: the scheduler is asked with the
\* tool's setting as the preferred model, then the tool is called; the tool
\* hands the request to its provider, which starts its first attempt.
SelectAndCall ==
    /\ provider.constructed
    /\ provider.pc = "idle"
    /\ \E chosen \in {first_available(quotas, last_reset, now, priority_order(provider.models[1]),
                                       priority_order(provider.models[1]))} :
        /\ candidate' = [asked |-> TRUE, preferred_model |-> provider.models[1],
                         model |-> chosen.model, keys |-> chosen.keys]
        /\ quotas' = chosen.quotas
        /\ last_reset' = chosen.last_reset
        /\ last_call' = [method |-> "is_exhausted"]
        /\ provider' = tool_call(provider)
        /\ UNCHANGED <<sessionVars, raceVars, now, marks, history, feedback>>

\* variant: the answer of the ledger is not acted on
pre_check_ignored(p, id, exhausted) == [p EXCEPT !.pc = "request", !.used = id]

\* if self._quota_manager.is_exhausted(key, model): rotate_key() and raise;
\* otherwise the attempt goes on to its request with this identity
pre_check(p, id, exhausted) ==
    IF exhausted
    THEN after_raise(rotate_key([p EXCEPT !.outcome = "pre_checked"]))
    ELSE [p EXCEPT !.pc = "request", !.used = id]

\* GeminiProvider.generate_with_media up to the upload: the ledger is asked
\* about the identity the ring points at; an exhausted one is skipped by
\* rotating and raising.
GeminiPreCheck ==
    /\ provider.constructed /\ provider.kind = "gemini"
    /\ provider.pc = "attempt"
    /\ \E id \in {current_identity(provider)} :
       \E call \in {exhausted_answer(quotas, last_reset, now, generate_key_id(id.key, id.model))} :
        /\ quotas' = call.quotas
        /\ last_reset' = call.last_reset
        /\ last_call' = [method |-> "is_exhausted", key_id |-> generate_key_id(id.key, id.model),
                         result |-> call.result]
        /\ provider' = pre_check(provider, id, call.result)
        /\ UNCHANGED <<sessionVars, raceVars, armVars, now, marks, history, feedback>>

\* how a request to a provider ends
ProviderOutcomes ==
    {"ok", "rate_limited_with_delay", "rate_limited", "client_error", "server_error", "unparseable"}

\* The ledger rows after the mark a failed Gemini request leaves: a rate
\* limit with a retry delay marks a cooldown of that delay plus one second, one
\* without marks the exponential backoff, another client error or any other
\* exception marks a failure; a response that cannot be parsed raises after
\* the try block and marks nothing.
gemini_mark(q, t, key_id, outcome, retry_delay) ==
    LET row == q[key_id]
        current_count == IF row = NoRow THEN 0 ELSE row.backoff_count
    IN  CASE outcome = "rate_limited_with_delay" ->
                 [q EXCEPT ![key_id] = [(IF row = NoRow THEN DefaultRow ELSE row)
                                           EXCEPT !.temp_exhausted_until = isoformat(t + retry_delay + 1)]]
          [] outcome = "rate_limited" ->
                 [q EXCEPT ![key_id] = upsert_backoff(row, isoformat(t + backoff_seconds(current_count + 1)),
                                                      current_count + 1)]
          [] outcome \in {"client_error", "server_error"} ->
                 [q EXCEPT ![key_id] = upsert_failure(row, isoformat(t))]
          [] OTHER -> q

\* the ring is advanced by the handlers of the try block only
gemini_rotates(outcome) ==
    outcome \in {"rate_limited_with_delay", "rate_limited", "client_error", "server_error"}

\* GeminiProvider.generate_with_media from the request on
GeminiResponse(outcome, retry_delay) ==
    LET id == provider.used
        key_id == generate_key_id(id.key, id.model)
        marked == gemini_mark(quotas, now, key_id, outcome, retry_delay)
    IN  /\ provider.constructed /\ provider.kind = "gemini"
        /\ provider.pc = "request"
        /\ quotas' = marked
        /\ marks' = IF outcome \in {"ok", "unparseable"} THEN marks ELSE marks + 1
        /\ provider' =
               IF outcome = "ok"
               THEN [provider EXCEPT !.pc = "returned", !.outcome = outcome]
               ELSE after_raise(IF gemini_rotates(outcome)
                                THEN rotate_key([provider EXCEPT !.outcome = outcome,
                                                                  !.cooled = IF outcome = "rate_limited_with_delay"
                                                                             THEN retry_delay + 1 ELSE NULL])
                                ELSE [provider EXCEPT !.outcome = outcome])
        /\ UNCHANGED <<sessionVars, raceVars, armVars, now, last_reset, last_call, history, feedback>>

\* GroqProvider.generate_with_images: the request is made with the key the
\* ring points at; a 429 rotates and raises, any other error status raises,
\* and so does a body that is not the JSON asked for.
GroqAttempt(outcome) ==
    /\ provider.constructed /\ provider.kind = "groq"
    /\ provider.pc = "attempt"
    /\ provider' =
           LET called == [provider EXCEPT !.used = current_identity(provider), !.outcome = outcome]
           IN  IF outcome = "ok"
               THEN [called EXCEPT !.pc = "returned"]
               ELSE after_raise(IF outcome \in {"rate_limited_with_delay", "rate_limited"}
                                THEN rotate_key(called)
                                ELSE called)
    /\ UNCHANGED <<sessionVars, raceVars, armVars, ledgerVars, feedback>>

\* handle_binary after the tool: a result marks success, an error marks
\* exhaustion when its text holds "429" or "exhausted" and a failure when it
\* does not, always for the scheduler's model and the first of its keys; the
\* error is raised again.
Feedback(said_exhausted) ==
    LET k0 == candidate.keys[1]
        key_id == generate_key_id(k0, candidate.model)
        row == quotas[key_id]
        current_count == IF row = NoRow THEN 0 ELSE row.backoff_count
        method == IF provider.pc = "returned" THEN "mark_success"
                  ELSE IF said_exhausted THEN "mark_exhausted" ELSE "mark_failure"
    IN  /\ provider.constructed
        /\ provider.pc \in {"returned", "raised"}
        /\ provider.pc = "returned" => ~said_exhausted
        /\ quotas' = [quotas EXCEPT ![key_id] =
                         CASE method = "mark_success" -> update_success(row)
                           [] method = "mark_exhausted" ->
                                  upsert_backoff(row, isoformat(now + backoff_seconds(current_count + 1)),
                                                 current_count + 1)
                           [] OTHER -> upsert_failure(row, isoformat(now))]
        /\ marks' = marks + 1
        /\ last_call' = [method |-> method, key_id |-> key_id]
        /\ feedback' = [method |-> method, key |-> k0, model |-> candidate.model, used |-> provider.used]
        /\ provider' = [provider EXCEPT !.pc = "idle"]
        /\ UNCHANGED <<sessionVars, raceVars, armVars, now, last_reset, history>>

\* One tool of one session: rounds of select, call and feedback, MaxDispatchMarks
\* marks in all, while time passes.
DispatchNext ==
    \/ \E ai_provider \in {"gemini", "groq"}, model \in AllModels : init_reasoners(ai_provider, model)
    \/ SelectAndCall
    \/ GeminiPreCheck
    \/ \E outcome \in ProviderOutcomes, retry_delay \in RetryDelays :
           marks < MaxDispatchMarks /\ GeminiResponse(outcome, retry_delay)
    \/ \E outcome \in ProviderOutcomes : GroqAttempt(outcome)
    \/ \E said_exhausted \in BOOLEAN : marks < MaxDispatchMarks /\ Feedback(said_exhausted)
    \/ Tick

DispatchSpec == LedgerInit /\ [][DispatchNext]_vars

\* The provider of some tool, bound to the model of its setting and with
\* its ring at api_key, asks the ledger, makes its request and is rate
\* limited without a retry delay.
RateLimitedAttempt(api_key, model) ==
    \E call \in {exhausted_answer(quotas, last_reset, now, generate_key_id(api_key, model))} :
        /\ ~call.result
        /\ quotas' = gemini_mark(call.quotas, now, generate_key_id(api_key, model), "rate_limited", 0)
        /\ last_reset' = call.last_reset
        /\ last_call' = [method |-> "mark_exhausted"]
        /\ marks' = marks + 1
        /\ UNCHANGED <<sessionVars, raceVars, armVars, dispatchVars, now, history>>

\* The scheduler among the providers: time passes until the first rate
\* limit; then providers are rate limited on any credential and model, and
\* the scheduler is asked at any point.
ArmNext ==
    \/ marks = 0 /\ Tick
    \/ \E a \in ApiKeys, m \in AllModels : RateLimitedAttempt(a, m)
    \/ \E preferred_model \in PreferredModels : get_available_model_and_keys(preferred_model)

ArmSpec == LedgerInit /\ [][ArmNext]_vars

\* ------------------------------------------------ the ring of a provider
\* GeminiProvider(api_key, model) / GroqProvider(api_key, model) with lists
\* of keys credentials and models models: both indexes start at 0.  visited
\* lists the positions the ring has pointed at.
NewProvider(ai_provider, keys, models) ==
    /\ ~provider.constructed
    /\ provider' = [constructed |-> TRUE, kind |-> ai_provider,
                    api_keys |-> [i \in 1..keys |-> i], models |-> [j \in 1..models |-> j],
                    key_index |-> 0, model_index |-> 0,
                    rotations |-> 0, visited |-> << <<0, 0>> >>]
    /\ UNCHANGED <<sessionVars, raceVars, ledgerVars, armVars, feedback>>

\* one rotate_key() of the provider, up to one full turn of its ring
RotateKey ==
    /\ provider.constructed
    /\ provider.rotations < Len(provider.api_keys) * Len(provider.models)
    /\ \E rotated \in {rotate_key(provider)} :
           provider' = [rotated EXCEPT !.rotations = @ + 1,
                                       !.visited = Append(@, <<rotated.key_index, rotated.model_index>>)]
    /\ UNCHANGED <<sessionVars, raceVars, ledgerVars, armVars, feedback>>

RingNext ==
    \/ \E ai_provider \in {"gemini", "groq"}, keys \in 1..MaxRingKeys, models \in 1..MaxRingModels :
           NewProvider(ai_provider, keys, models)
    \/ RotateKey

RingSpec == LedgerInit /\ [][RingNext]_vars

\* ------------------------------------------- the attempts of one call
\* A provider as _init_reasoners builds it, with the stop condition its
\* method is decorated with.
DecoratedProvider(ai_provider) ==
    /\ ~provider.constructed
    /\ provider' = [constructed |-> TRUE, kind |-> ai_provider,
                    api_keys |-> IF ai_provider = "groq" THEN GROQ_API_KEYS ELSE GEMINI_API_KEYS,
                    models |-> <<"gemini-2.5-flash">>, key_index |-> 0, model_index |-> 0,
                    pc |-> "idle", attempt_number |-> 0, stop |-> stop_after_attempt(ai_provider),
                    used |-> NULL, outcome |-> "none", cooled |-> NULL]
    /\ UNCHANGED <<sessionVars, raceVars, ledgerVars, armVars, feedback>>

\* the tool calls the decorated method; a call that returned or raised can
\* be followed by another
CallProvider ==
    /\ provider.constructed
    /\ provider.pc \in {"idle", "returned", "raised"}
    /\ provider' = tool_call(provider)
    /\ UNCHANGED <<sessionVars, raceVars, ledgerVars, armVars, feedback>>

\* Calls of one provider with every attempt followed; MaxRetryMarks of the
\* failed requests leave a mark in the ledger.
RetryNext ==
    \/ \E ai_provider \in {"gemini", "groq"} : DecoratedProvider(ai_provider)
    \/ CallProvider
    \/ GeminiPreCheck
    \/ \E outcome \in ProviderOutcomes, retry_delay \in RetryDelays :
           /\ outcome \notin {"ok", "unparseable"} => marks < MaxRetryMarks
           /\ GeminiResponse(outcome, retry_delay)
    \/ \E outcome \in ProviderOutcomes : GroqAttempt(outcome)

RetrySpec == LedgerInit /\ [][RetryNext]_vars

\* ------------------------------------- the pre-check and the shared ledger
\* The Gemini provider of one tool makes its calls while other users of the
\* database (the dispatch, the providers of the other tools) mark failures
\* and cooldowns on key_a, MaxPreCheckMarks marks in all, and time passes.
PreCheckNext ==
    \/ \E model \in Models : init_reasoners("gemini", model)
    \/ CallProvider
    \/ GeminiPreCheck
    \/ \E outcome \in {"ok", "unparseable", "server_error"}, retry_delay \in RetryDelays :
           /\ outcome = "server_error" => marks < MaxPreCheckMarks
           /\ GeminiResponse(outcome, retry_delay)
    \/ marks < MaxPreCheckMarks /\ \E m \in Models : mark_failure("key_a", m)
    \/ marks < MaxPreCheckMarks /\ \E m \in Models, seconds \in RetryDelays :
                                       mark_temporary_exhaustion("key_a", m, seconds)
    \/ Tick

PreCheckSpec == LedgerInit /\ [][PreCheckNext]_vars

TypeOK ==
    /\ state \in SolveState
    /\ pc \in {"idle", "probe", "loop", "review", "solve", "race", "finish", "returned", "raised"}
    /\ ignore_check \in {"none", "skip", "continue", "timeout"}
    /\ reset_count \in 0..(MaxResetsCfg + 1)
    /\ challenge_attempts \in 0..(MaxAttemptsCfg + 1)
    /\ captcha_payload \in Payloads \cup {None}
    /\ Len(captcha_response_queue) <= MaxVerdictQueue
    /\ Len(captcha_payload_queue) <= MaxPayloadQueue
    /\ signal \in {"none", "SUCCESS", "FAILURE"}
    /\ now \in Clock
    /\ candidate.asked \in BOOLEAN
    /\ last_call.method \in {"__init__", "is_exhausted", "mark_exhausted",
                            "mark_temporary_exhaustion", "mark_failure", "mark_success"}
    /\ marks \in Nat
    /\ in_flight \in Nat
    /\ stale_verdicts \in Nat
    /\ \A k \in KeyIds : quotas[k] # NoRow =>
           /\ quotas[k].failure_count \in 0..marks
           /\ quotas[k].backoff_count \in 0..marks

\* ================================================================ claims

\* C1: whenever the increment at the head of a loop iteration takes
\* challenge_attempts past MAX_CHALLENGE_ATTEMPTS, that same step sets the
\* state to FAILURE and leaves the loop; no dispatch is started, nothing is
\* reloaded, and neither queue nor the reset counter is touched, whatever the
\* state and the queues were.
C1_AttemptLimitForcesFailure ==
    [][ (/\ challenge_attempts' = challenge_attempts + 1
         /\ challenge_attempts' > MAX_CHALLENGE_ATTEMPTS)
        => (/\ state' = "FAILURE"
            /\ pc' = "finish"
            /\ dispatch_calls' = dispatch_calls
            /\ ~page_reloaded'
            /\ reset_count' = reset_count
            /\ captcha_response_queue' = captcha_response_queue
            /\ captcha_payload_queue' = captcha_payload_queue) ]_vars

\* the limit fired while both queues held entries
C1_Witness ==
    /\ pc = "finish"
    /\ state = "FAILURE"
    /\ challenge_attempts = MAX_CHALLENGE_ATTEMPTS + 1
    /\ captcha_response_queue # << >>
    /\ captcha_payload_queue # << >>

\* C2: under FairSpec every session returns a SUCCESS or FAILURE signal, and
\* the dispatch is never started more than MAX_CHALLENGE_ATTEMPTS times.
C2_SessionTerminates ==
    /\ [](dispatch_calls <= MAX_CHALLENGE_ATTEMPTS)
    /\ <>(pc = "returned" /\ signal \in {"SUCCESS", "FAILURE"})

\* a session that used every attempt on a dispatch and was ended by the limit
C2_Witness ==
    /\ pc = "returned"
    /\ signal = "FAILURE"
    /\ dispatch_calls = MAX_CHALLENGE_ATTEMPTS
    /\ challenge_attempts = MAX_CHALLENGE_ATTEMPTS + 1

\* C3: the state becomes SUCCESS only in the SUBMITTED wait, on a passing
\* verdict taken from the verdict queue and appended to cr_list in that step;
\* and SUCCESS is returned only from state SUCCESS with that verdict cached.
C3_SuccessOnlyByPassingVerdict ==
    [][ /\ (state' = "SUCCESS" /\ state # "SUCCESS")
           => (/\ pc = "race"
               /\ state = "SUBMITTED"
               /\ captcha_response_queue # << >>
               /\ Head(captcha_response_queue).is_pass
               /\ captcha_response_queue' = Tail(captcha_response_queue)
               /\ cr_list' = Append(cr_list, Head(captcha_response_queue)))
        /\ (signal' = "SUCCESS" /\ signal # "SUCCESS")
           => (/\ state = "SUCCESS"
               /\ cr_list # << >>
               /\ cr_list[Len(cr_list)].is_pass) ]_vars

\* a session that returned SUCCESS
C3_Witness ==
    /\ pc = "returned"
    /\ signal = "SUCCESS"
    /\ cr_list # << >>

\* C4: a payload taken from the payload queue in SUBMITTED while
\* reset_count < MAX_RESETS leads to CHALLENGE_PENDING, adds exactly one to
\* reset_count and makes that payload the session's captcha_payload.
C4_NewPayloadWhileSubmitted ==
    [][ (/\ pc = "race"
         /\ state = "SUBMITTED"
         /\ captcha_payload_queue # << >>
         /\ captcha_payload_queue' = Tail(captcha_payload_queue)
         /\ reset_count < MAX_RESETS)
        => (/\ state' = "CHALLENGE_PENDING"
            /\ reset_count' = reset_count + 1
            /\ captcha_payload' = Head(captcha_payload_queue)) ]_vars

\* a second-round payload different from the one just solved was accepted
C4_Witness ==
    /\ pc = "loop"
    /\ race = "payload"
    /\ state = "CHALLENGE_PENDING"
    /\ reset_count = 1
    /\ captcha_payload = "p2"
    /\ dispatch_calls = 1

\* C5 as stated: with MAX_RESETS = 1, a session in which the verdict wait
\* never yields a verdict returns FAILURE with reset_count <= 1.
C5_Original ==
    (pc = "returned" /\ MAX_RESETS = 1 /\ ~verdict_dequeued)
        => (signal = "FAILURE" /\ reset_count <= 1)

\* C5 amended: with MAX_RESETS = 1, a session in which the verdict wait never
\* yields a verdict returns FAILURE with reset_count <= 2: the reset that
\* exhausts the budget is counted before the budget is tested.
C5_NoVerdictFails ==
    (pc = "returned" /\ MAX_RESETS = 1 /\ ~verdict_dequeued)
        => (signal = "FAILURE" /\ reset_count <= MAX_RESETS + 1)

\* such a session, ended by the second reset
C5_Witness ==
    /\ pc = "returned"
    /\ MAX_RESETS = 1
    /\ ~verdict_dequeued
    /\ signal = "FAILURE"
    /\ reset_count = 2

\* C6: when the SUBMITTED wait ends with both queues empty the state becomes
\* FAILURE and reset_count keeps its value.
C6_ResponseTimeoutFails ==
    [][ (/\ pc = "race"
         /\ pc' # "race"
         /\ captcha_response_queue = << >>
         /\ captcha_payload_queue = << >>)
        => (state' = "FAILURE" /\ reset_count' = reset_count) ]_vars

\* the timeout ended a session that could still retry, with attempts and resets left
C6_Witness ==
    /\ pc = "loop"
    /\ race = "timeout"
    /\ state = "FAILURE"
    /\ RETRY_ON_FAILURE
    /\ challenge_attempts < MAX_CHALLENGE_ATTEMPTS
    /\ reset_count < MAX_RESETS

C8_DispatchFailure ==
    [][ (pc \in {"review", "solve"} /\ result' = "false")
        => (/\ reset_count' = reset_count + 1
            /\ pc' = "loop"
            /\ IF reset_count' > MAX_RESETS
               THEN /\ state' = "FAILURE"
                    /\ ~page_reloaded'
                    /\ ~checkbox_clicked'
               ELSE /\ state' = "INIT"
                    /\ page_reloaded'
                    /\ checkbox_clicked') ]_vars

\* a failed dispatch was followed by a reload and a click that raised
C8_Witness ==
    /\ pc = "loop"
    /\ result = "false"
    /\ state = "INIT"
    /\ reset_count = 1
    /\ page_reloaded
    /\ checkbox_clicked
    /\ click_raised

\* C9 as stated: a dispatch that times out has the effect of one that
\* returns False: reset_count grows by one and, by the budget, the state
\* becomes FAILURE without a reload or INIT after a reload and a click.
C9_TimeoutLikeFailure ==
    [][ (pc \in {"review", "solve"} /\ result' = "timeout")
        => (/\ reset_count' = reset_count + 1
            /\ pc' = "loop"
            /\ IF reset_count' > MAX_RESETS
               THEN /\ state' = "FAILURE"
                    /\ ~page_reloaded'
                    /\ ~checkbox_clicked'
               ELSE /\ state' = "INIT"
                    /\ page_reloaded'
                    /\ checkbox_clicked') ]_vars

\* C10: once debug_find_captcha has found nothing the session has returned
\* FAILURE, and the loop was never entered: no attempt, no reset, no
\* dispatch and no reload was made.
C10_ProbeFailureIsTerminal ==
    found = "no"
        => (/\ pc = "returned"
            /\ signal = "FAILURE"
            /\ challenge_attempts = 0
            /\ reset_count = 0
            /\ dispatch_calls = 0
            /\ ~page_reloaded)

\* the probe failed in a session whose configuration allowed retries
C10_Witness ==
    /\ found = "no"
    /\ pc = "returned"
    /\ RETRY_ON_FAILURE
    /\ MAX_RESETS > 0
    /\ MAX_CHALLENGE_ATTEMPTS > 1

C12_LosingWaitLeaksNothing ==
    [][ (pc = "race" /\ race' = "payload")
        => (captcha_response_queue' = captcha_response_queue) ]_vars

\* ---------------------------------------------------------------- C13
\* C13 as stated: when the last mark_* call on a key was mark_exhausted,
\* which wrote the cooldown end u, the key has had fewer than 3 mark_failure
\* calls since its last mark_success and is not daily-exhausted, then
\* is_exhausted on that key answers True at every time before u and False at
\* every time at or after u.
C13_CooldownDecidesAnswer ==
    [][ \A a \in ApiKeys, m \in Models :
          LET k == generate_key_id(a, m)
              h == history[k]
          IN  ( /\ is_exhausted(a, m)
                /\ h.last_mark.method = "mark_exhausted"
                /\ h.failure_calls < 3
                /\ (quotas[k] = NoRow \/ quotas[k].exhausted_at = NULL) )
              => last_call'.result = (now < fromisoformat(h.last_mark.until)) ]_vars

\* C13 amended: the same, provided no daily reset cleared the ledger between
\* the mark_exhausted call and the answer (the reset check of the
\* is_exhausted call itself included).
C13_CooldownDecidesAnswerUnlessReset ==
    [][ \A a \in ApiKeys, m \in Models :
          LET k == generate_key_id(a, m)
              h == history[k]
          IN  ( /\ is_exhausted(a, m)
                /\ h.last_mark.method = "mark_exhausted"
                /\ h.failure_calls < 3
                /\ (quotas[k] = NoRow \/ quotas[k].exhausted_at = NULL)
                /\ last_reset' = h.last_mark.epoch )
              => last_call'.result = (now < fromisoformat(h.last_mark.until)) ]_vars

\* C13 witness: is_exhausted answered False for a key whose last mark_* call
\* was mark_exhausted, once the cooldown written by that call had run out,
\* with no daily reset in between; the expired cooldown has been cleared.
C13_Witness ==
    \E k \in KeyIds :
        /\ last_call = [method |-> "is_exhausted", key_id |-> k, result |-> FALSE]
        /\ history[k].last_mark.method = "mark_exhausted"
        /\ history[k].last_mark.epoch = last_reset
        /\ now >= fromisoformat(history[k].last_mark.until)
        /\ quotas[k] # NoRow
        /\ quotas[k].backoff_count >= 1
        /\ quotas[k].temp_exhausted_until = NULL

\* ---------------------------------------------------------------- C14
\* C14 as stated: on a key that has had no mark_success, the n-th
\* mark_exhausted call leaves backoff_count = n and a cooldown of
\* min(30 * 2^(n-1), 960) seconds, never more than 960.
C14_BackoffSequence ==
    [][ \A a \in ApiKeys, m \in Models :
          LET k == generate_key_id(a, m)
              n == history[k].exhausted_calls + 1
              cooldown == fromisoformat(quotas'[k].temp_exhausted_until) - now
          IN  (mark_exhausted(a, m) /\ ~history[k].succeeded)
              => /\ quotas'[k].backoff_count = n
                 /\ cooldown = IF 30 * (2 ^ (n - 1)) <= 960 THEN 30 * (2 ^ (n - 1)) ELSE 960
                 /\ cooldown <= 960 ]_vars

\* C14 amended: the same, provided no daily reset cleared the ledger since
\* the first of the mark_exhausted calls.
C14_BackoffSequenceUnlessReset ==
    [][ \A a \in ApiKeys, m \in Models :
          LET k == generate_key_id(a, m)
              n == history[k].exhausted_calls + 1
              cooldown == fromisoformat(quotas'[k].temp_exhausted_until) - now
          IN  ( /\ mark_exhausted(a, m)
                /\ ~history[k].succeeded
                /\ (n > 1 => last_reset = history[k].exhausted_epoch) )
              => /\ quotas'[k].backoff_count = n
                 /\ cooldown = IF 30 * (2 ^ (n - 1)) <= 960 THEN 30 * (2 ^ (n - 1)) ELSE 960
                 /\ cooldown <= 960 ]_vars

\* C14 witness: the seventh mark_exhausted call in a row on a key, with no
\* mark_success and no daily reset since the first, has just written a
\* cooldown of 960 seconds and backoff_count = 7.
C14_Witness ==
    \E k \in KeyIds :
        /\ last_call = [method |-> "mark_exhausted", key_id |-> k]
        /\ history[k].exhausted_calls = 7
        /\ ~history[k].succeeded
        /\ history[k].exhausted_epoch = last_reset
        /\ quotas[k].backoff_count = 7
        /\ fromisoformat(quotas[k].temp_exhausted_until) - now = 960

\* ---------------------------------------------------------------- C15
\* C15: whatever preceded it, mark_success on a key leaves the key with
\* failure_count 0, backoff_count 2 lower than before but not below 0, and
\* last_failure and temp_exhausted_until unset (a key without a row counts
\* as a key with the default values).
C15_SuccessRecovers ==
    [][ \A a \in ApiKeys, m \in Models :
          LET k == generate_key_id(a, m)
              before == IF quotas[k] = NoRow THEN 0 ELSE quotas[k].backoff_count
              after == IF quotas'[k] = NoRow THEN DefaultRow ELSE quotas'[k]
          IN  mark_success(a, m)
              => /\ after.failure_count = 0
                 /\ after.backoff_count = (IF before >= 2 THEN before - 2 ELSE 0)
                 /\ after.last_failure = NULL
                 /\ after.temp_exhausted_until = NULL ]_vars

\* C15 witness: mark_success has just run on a key that had three
\* mark_exhausted calls before it; the row keeps backoff_count = 1.
C15_Witness ==
    \E k \in KeyIds :
        /\ last_call = [method |-> "mark_success", key_id |-> k]
        /\ history[k].exhausted_calls = 3
        /\ quotas[k] # NoRow
        /\ quotas[k].backoff_count = 1
        /\ quotas[k].failure_count = 0
        /\ quotas[k].last_failure = NULL
        /\ quotas[k].temp_exhausted_until = NULL

\* ---------------------------------------------------------------- C16
\* C16 as stated: once a key has had three mark_failure calls since its last
\* mark_success, is_exhausted answers True for it, cooldown or not; with
\* fewer than three and no running cooldown (and no daily exhaustion) it
\* answers False.
C16_ThreeFailuresExhaust ==
    [][ \A a \in ApiKeys, m \in Models :
          LET k == generate_key_id(a, m)
              h == history[k]
              row == quotas[k]
          IN  is_exhausted(a, m)
              => /\ h.failure_calls >= 3 => last_call'.result = TRUE
                 /\ ( /\ h.failure_calls < 3
                      /\ \/ row = NoRow
                         \/ /\ row.exhausted_at = NULL
                            /\ \/ row.temp_exhausted_until = NULL
                               \/ now >= fromisoformat(row.temp_exhausted_until) )
                    => last_call'.result = FALSE ]_vars

\* C16 amended: the first half holds provided no daily reset cleared the
\* ledger between the first of the failures and the answer (the reset check
\* of the is_exhausted call itself included); the second half is unchanged.
C16_ThreeFailuresExhaustUnlessReset ==
    [][ \A a \in ApiKeys, m \in Models :
          LET k == generate_key_id(a, m)
              h == history[k]
              row == quotas[k]
          IN  is_exhausted(a, m)
              => /\ (h.failure_calls >= 3 /\ last_reset' = h.failure_epoch)
                    => last_call'.result = TRUE
                 /\ ( /\ h.failure_calls < 3
                      /\ \/ row = NoRow
                         \/ /\ row.exhausted_at = NULL
                            /\ \/ row.temp_exhausted_until = NULL
                               \/ now >= fromisoformat(row.temp_exhausted_until) )
                    => last_call'.result = FALSE ]_vars

\* C16 witness: is_exhausted answered True for a key with three mark_failure
\* calls, no daily reset since the first, and no cooldown in its row.
C16_Witness ==
    \E k \in KeyIds :
        /\ last_call = [method |-> "is_exhausted", key_id |-> k, result |-> TRUE]
        /\ history[k].failure_calls = 3
        /\ history[k].failure_epoch = last_reset
        /\ quotas[k] # NoRow
        /\ quotas[k].failure_count = 3
        /\ quotas[k].temp_exhausted_until = NULL

C18_EveryOperationChecksReset ==
    [][ \A a \in ApiKeys, m \in Models :
          LET k == generate_key_id(a, m)
              boundary == (now \div 86400) * 86400 + 8 * 3600
              due == now >= boundary /\ fromisoformat(last_reset) < boundary
          IN  ( /\ \/ is_exhausted(a, m)
                   \/ mark_exhausted(a, m)
                   \/ \E seconds \in RetryDelays : mark_temporary_exhaustion(a, m, seconds)
                   \/ mark_failure(a, m)
                   \/ mark_success(a, m)
                /\ due )
              => /\ last_reset' = isoformat(now)
                 /\ \A other \in KeyIds \ {k} : quotas'[other] = NoRow ]_vars

\* ---------------------------------------------------------------- C19
\* C19: is_exhausted answers for the row left by the reset check: True
\* exactly when the row exists and is daily-exhausted, or its cooldown ends
\* in the future, or its failure_count is at least 3.  A cooldown found
\* expired is cleared and nothing else in the row changes; a key without a
\* row is not exhausted and gets no row.
C19_ExhaustedExactlyWhen ==
    [][ \A a \in ApiKeys, m \in Models :
          LET k == generate_key_id(a, m)
              boundary == (now \div 86400) * 86400 + 8 * 3600
              due == now >= boundary /\ fromisoformat(last_reset) < boundary
              row == IF due THEN NoRow ELSE quotas[k]
              running == row.temp_exhausted_until # NULL
                            /\ now < fromisoformat(row.temp_exhausted_until)
              expired == row.temp_exhausted_until # NULL
                            /\ now >= fromisoformat(row.temp_exhausted_until)
          IN  is_exhausted(a, m)
              => IF row = NoRow
                 THEN /\ last_call'.result = FALSE
                      /\ quotas'[k] = NoRow
                 ELSE /\ last_call'.result =
                            (row.exhausted_at # NULL \/ running \/ row.failure_count >= 3)
                      /\ quotas'[k] # NoRow
                      /\ quotas'[k].temp_exhausted_until =
                            IF row.exhausted_at = NULL /\ expired
                            THEN NULL ELSE row.temp_exhausted_until
                      /\ quotas'[k].backoff_count = row.backoff_count
                      /\ quotas'[k].failure_count = row.failure_count
                      /\ quotas'[k].last_failure = row.last_failure
                      /\ quotas'[k].exhausted_at = row.exhausted_at ]_vars

\* C19 witness: is_exhausted answered False for a key that has had
\* mark_exhausted and mark_failure calls but no mark_success: it found the
\* cooldown expired and cleared it, and the counts are still in the row.
C19_Witness ==
    \E k \in KeyIds :
        /\ last_call = [method |-> "is_exhausted", key_id |-> k, result |-> FALSE]
        /\ ~history[k].succeeded
        /\ quotas[k] # NoRow
        /\ quotas[k].temp_exhausted_until = NULL
        /\ quotas[k].backoff_count >= 1
        /\ quotas[k].failure_count \in 1..2

\* ---------------------------------------------------------------- C20
\* C20: mark_temporary_exhaustion(key, seconds) leaves the key's cooldown
\* ending exactly seconds after the call, whatever it was before; the key's
\* backoff_count, failure_count and last_failure stay as they were (the
\* defaults for a key without a row) and no other key's row changes.
C20_TemporaryExhaustionFrame ==
    [][ \A a \in ApiKeys, m \in Models, seconds \in RetryDelays :
          LET k == generate_key_id(a, m)
              old == IF quotas[k] = NoRow THEN DefaultRow ELSE quotas[k]
          IN  mark_temporary_exhaustion(a, m, seconds)
              => /\ quotas'[k] # NoRow
                 /\ fromisoformat(quotas'[k].temp_exhausted_until) = now + seconds
                 /\ quotas'[k].backoff_count = old.backoff_count
                 /\ quotas'[k].failure_count = old.failure_count
                 /\ quotas'[k].last_failure = old.last_failure
                 /\ \A other \in KeyIds \ {k} : quotas'[other] = quotas[other] ]_vars

\* C20 witness: mark_temporary_exhaustion has just run on a key whose row
\* already carried a backoff count from a mark_exhausted call, while another
\* key has a row of its own.
C20_Witness ==
    \E k \in KeyIds :
        /\ last_call = [method |-> "mark_temporary_exhaustion", key_id |-> k]
        /\ quotas[k] # NoRow
        /\ fromisoformat(quotas[k].temp_exhausted_until) \in {now + seconds : seconds \in RetryDelays}
        /\ quotas[k].backoff_count >= 1
        /\ \E other \in KeyIds \ {k} : quotas[other] # NoRow

\* ---- the ledger under concurrent callers
\* What one completed call does to a record when it runs alone: a failure
\* adds one to the streak and stores its time stamp (a first failure creates
\* the record); a success clears the streak, the stamp and the cooldown and
\* takes two off the backoff count, not below zero; an exhaustion adds one to
\* the backoff count and stores the cooldown for that count.
SerialApply(row, call) ==
    LET old == IF row = NoRow
               THEN [exhausted_at |-> NULL, failure_count |-> 0, last_failure |-> NULL,
                     temp_exhausted_until |-> NULL, backoff_count |-> 0]
               ELSE row
        delay(n) == IF n >= 6 THEN 960 ELSE 30 * 2 ^ (n - 1)
    IN  CASE call.method = "mark_failure" ->
                 [old EXCEPT !.failure_count = @ + 1, !.last_failure = call.stamp]
          [] call.method = "mark_success" ->
                 IF row = NoRow THEN NoRow
                 ELSE [old EXCEPT !.failure_count = 0, !.last_failure = NULL,
                                  !.temp_exhausted_until = NULL,
                                  !.backoff_count = IF @ >= 2 THEN @ - 2 ELSE 0]
          [] call.method = "mark_exhausted" ->
                 [old EXCEPT !.backoff_count = @ + 1,
                             !.temp_exhausted_until =
                                 [day |-> (call.at + delay(old.backoff_count + 1)) \div 86400,
                                  hour |-> ((call.at + delay(old.backoff_count + 1)) % 86400) \div 3600,
                                  minute |-> ((call.at + delay(old.backoff_count + 1)) % 3600) \div 60,
                                  second |-> (call.at + delay(old.backoff_count + 1)) % 60]]

RECURSIVE SerialOutcomes(_, _, _)
\* the records that the calls s1 of one process and s2 of the other leave
\* behind when they run one after the other in some order, each process's
\* calls in its own order
SerialOutcomes(row, s1, s2) ==
    IF s1 = << >> /\ s2 = << >>
    THEN {row}
    ELSE (IF s1 = << >> THEN {} ELSE SerialOutcomes(SerialApply(row, Head(s1)), Tail(s1), s2))
         \cup
         (IF s2 = << >> THEN {} ELSE SerialOutcomes(SerialApply(row, Head(s2)), s1, Tail(s2)))

\* the calls that the two processes have completed, counted by method
CallsOf(method) ==
    Cardinality({<<p, i>> \in Procs \X (1..MaxProcCalls + 1) :
                    i <= Len(calls[p]) /\ calls[p][i].method = method})

\* C21: when no call is in flight and the two processes have so far called
\* only mark_failure and mark_success on the key, the key's record is one
\* that running the same calls one after the other, in some order, leaves
\* behind; when they called only mark_failure, N calls, the streak is N.
C21_FailureSuccessSerializable ==
    (/\ \A p \in Procs : proc[p].pc = "idle"
     /\ CallsOf("mark_exhausted") = 0)
    => /\ quotas[RaceKey] \in SerialOutcomes(NoRow, calls["proc_1"], calls["proc_2"])
       /\ CallsOf("mark_success") = 0 /\ CallsOf("mark_failure") > 0
              => quotas[RaceKey].failure_count = CallsOf("mark_failure")

\* Both processes were inside mark_failure at once: proc_1 read the clock
\* first and wrote last, so the record carries its older stamp after proc_2's
\* newer one was written, and the streak counts every call.
C21_Witness ==
    /\ \A p \in Procs : proc[p].pc = "idle"
    /\ CallsOf("mark_failure") = 2 * MaxProcCalls
    /\ quotas[RaceKey].failure_count = 2 * MaxProcCalls
    /\ quotas[RaceKey].last_failure = calls["proc_1"][1].stamp
    /\ calls["proc_2"][1].stamp # calls["proc_1"][1].stamp

\* C22: when no call is in flight and the two processes have so far called
\* only mark_exhausted on the key, N calls in all, backoff_count is N and the
\* stored cooldown is the one computed from that final count by one of the
\* calls.
C22_MarkExhaustedAtomic ==
    (/\ \A p \in Procs : proc[p].pc = "idle"
     /\ CallsOf("mark_failure") = 0 /\ CallsOf("mark_success") = 0
     /\ CallsOf("mark_exhausted") > 0)
    => /\ quotas[RaceKey].backoff_count = CallsOf("mark_exhausted")
       /\ \E p \in Procs : \E i \in 1..Len(calls[p]) :
              quotas[RaceKey].temp_exhausted_until =
                  SerialApply([exhausted_at |-> NULL, failure_count |-> 0, last_failure |-> NULL,
                               temp_exhausted_until |-> NULL,
                               backoff_count |-> CallsOf("mark_exhausted") - 1],
                              calls[p][i]).temp_exhausted_until

\* C23: in every reachable state of the ledger, whatever calls and daily
\* resets led to it, every record has backoff_count >= 0 and
\* failure_count >= 0.
C23_CountersNeverNegative ==
    \A k \in KeyIds :
        quotas[k] # NoRow => quotas[k].backoff_count >= 0 /\ quotas[k].failure_count >= 0

\* mark_success has just run on a record whose backoff count was 1: one
\* mark_exhausted since the last reset, no reset since, and the count is 0.
C23_Witness ==
    LET k == generate_key_id("key_a", "gemini-2.5-flash")
    IN  /\ last_call = [method |-> "mark_success", key_id |-> k]
        /\ history[k].exhausted_calls = 1
        /\ history[k].exhausted_epoch = last_reset
        /\ quotas[k] # NoRow
        /\ quotas[k].backoff_count = 0
        /\ quotas[k].failure_count = 0

\* ---- the rotation scheduler
\* the order the claim gives for a preferred model: the preferred model, then
\* the models of the priority list that are not it, in the list's order
ClaimedOrder(preferred_model) ==
    IF preferred_model = None
    THEN <<"gemini-2.5-flash", "gemini-2.5-flash-lite", "gemini-3-flash">>
    ELSE <<preferred_model>>
         \o (IF preferred_model # "gemini-2.5-flash" THEN <<"gemini-2.5-flash">> ELSE << >>)
         \o (IF preferred_model # "gemini-2.5-flash-lite" THEN <<"gemini-2.5-flash-lite">> ELSE << >>)
         \o (IF preferred_model # "gemini-3-flash" THEN <<"gemini-3-flash">> ELSE << >>)

\* isExhausted == false for a credential and a model in the current state: a
\* daily reset that is due leaves no record; otherwise the key has no record,
\* or neither a running cooldown nor three failures
NotExhausted(api_key, model) ==
    LET row == quotas[<<api_key, model>>]
        boundary == (now \div 86400) * 86400 + 8 * 3600
        stamp == last_reset.day * 86400 + last_reset.hour * 3600 + last_reset.minute * 60
                 + last_reset.second
        until == row.temp_exhausted_until
    IN  \/ now >= boundary /\ stamp < boundary
        \/ row = NoRow
        \/ /\ row.exhausted_at = NULL
           /\ until = NULL \/ now >= until.day * 86400 + until.hour * 3600 + until.minute * 60 + until.second
           /\ row.failure_count < 3

\* the credentials, in configured order, that are not exhausted for a model
FreeKeys(model) == SelectSeq(<<"key_a", "key_b">>, LAMBDA k : NotExhausted(k, model))

\* C24: a call with preferred model P tries the models in the order P, then
\* the rest of the priority list in its own order; it returns the first
\* model of that order with a credential that is not exhausted, together with
\* exactly the credentials not exhausted for it, in configured order.
C24_FirstAvailableInOrder ==
    [][ \A preferred_model \in PreferredModels :
          get_available_model_and_keys(preferred_model) =>
              LET order == ClaimedOrder(preferred_model)
              IN  \A i \in 1..Len(order) :
                      (/\ FreeKeys(order[i]) # << >>
                       /\ \A j \in 1..(i - 1) : FreeKeys(order[j]) = << >>)
                      => /\ candidate'.model = order[i]
                         /\ candidate'.keys = FreeKeys(order[i]) ]_vars

\* Asked with the second model of the list preferred while both credentials
\* are in cooldown for it and the first credential is in cooldown for the
\* first model, the scheduler returned the first model with the second
\* credential alone.
C24_Witness ==
    /\ candidate = [asked |-> TRUE, preferred_model |-> "gemini-2.5-flash-lite",
                    model |-> "gemini-2.5-flash", keys |-> <<"key_b">>]
    /\ ~NotExhausted("key_a", "gemini-2.5-flash-lite")
    /\ ~NotExhausted("key_b", "gemini-2.5-flash-lite")
    /\ ~NotExhausted("key_a", "gemini-2.5-flash")
    /\ NotExhausted("key_b", "gemini-2.5-flash")

\* C25: when every credential is exhausted for every model of the order, the
\* call returns the first model of the order (the preferred one when given)
\* with the first configured credential alone; and every call returns a model
\* and a list of credentials that is not empty.
C25_FailOpen ==
    [][ \A preferred_model \in PreferredModels :
          get_available_model_and_keys(preferred_model) =>
              LET order == ClaimedOrder(preferred_model)
              IN  /\ (\A i \in 1..Len(order) : FreeKeys(order[i]) = << >>)
                      => /\ candidate'.model = order[1]
                         /\ candidate'.keys = <<"key_a">>
                  /\ candidate'.keys # << >>
                  /\ candidate'.model \in AllModels ]_vars

\* Asked with the second model of the list preferred while every credential
\* is in cooldown for all three models, the scheduler returned the preferred
\* model with the first credential.
C25_Witness ==
    /\ candidate = [asked |-> TRUE, preferred_model |-> "gemini-2.5-flash-lite",
                    model |-> "gemini-2.5-flash-lite", keys |-> <<"key_a">>]
    /\ \A k \in {"key_a", "key_b"} :
       \A m \in {"gemini-2.5-flash", "gemini-2.5-flash-lite", "gemini-3-flash"} : ~NotExhausted(k, m)

\* ---- the dispatch boundary and the providers
\* C26: the mark that the dispatch makes in the ledger after a call of the
\* tool (success, exhaustion or failure) goes to the credential and model
\* that the Gemini provider used for its last request of that call, and
\* these are the model and the first credential returned by the scheduler
\* before the call.
C26_FeedbackOnIdentityUsed ==
    [][ \A said_exhausted \in BOOLEAN :
          (/\ Feedback(said_exhausted)
           /\ provider.kind = "gemini"
           /\ provider.used # NULL)
          => /\ feedback'.key = provider.used.key
             /\ feedback'.model = provider.used.model
             /\ provider.used.key = candidate.keys[1]
             /\ provider.used.model = candidate.model ]_vars

\* C29: an attempt of a provider that ends with a rate limit leaves a
\* cooldown in the ledger for the credential and model it used: one that
\* covers the retry delay when the provider was given one, the exponential
\* backoff for the key's count otherwise; and the ring then points at another
\* credential or model whenever more than one is configured.
C29_RateLimitCoolsAndRotates ==
    [][ \A outcome \in {"rate_limited_with_delay", "rate_limited"}, retry_delay \in RetryDelays :
          (GeminiResponse(outcome, retry_delay) \/ GroqAttempt(outcome))
          => LET id == provider'.used
                 key_id == <<id.key, id.model>>
                 count == IF quotas[key_id] = NoRow THEN 0 ELSE quotas[key_id].backoff_count
                 until == quotas'[key_id].temp_exhausted_until
                 seconds == until.day * 86400 + until.hour * 3600 + until.minute * 60 + until.second
             IN  /\ key_id \in DOMAIN quotas'
                 /\ quotas'[key_id] # NoRow
                 /\ until # NULL
                 /\ IF outcome = "rate_limited_with_delay"
                    THEN seconds >= now + retry_delay
                    ELSE /\ quotas'[key_id].backoff_count = count + 1
                         /\ seconds = now + (IF count >= 5 THEN 960 ELSE 30 * 2 ^ count)
                 /\ Len(provider.api_keys) * Len(provider.models) > 1
                        => \/ provider'.api_keys[provider'.key_index + 1] # id.key
                           \/ provider'.models[provider'.model_index + 1] # id.model ]_vars

\* C30: an attempt of the Gemini provider that ends with a server error, an
\* unexpected exception or a response that cannot be parsed adds exactly one
\* to the failure count of the credential and model it used; a count of three
\* or more makes the ledger answer that the identity is exhausted, unless
\* the daily reset is due and wipes the row first.
C30_UnstableAttemptCounts ==
    [][ \A outcome \in {"server_error", "unparseable"}, retry_delay \in RetryDelays :
          GeminiResponse(outcome, retry_delay)
          => LET id == provider'.used
                 key_id == <<id.key, id.model>>
                 count == IF quotas[key_id] = NoRow THEN 0 ELSE quotas[key_id].failure_count
             IN  /\ quotas'[key_id] # NoRow
                 /\ quotas'[key_id].failure_count = count + 1
                 /\ count + 1 >= 3
                        => LET answer == exhausted_answer(quotas', last_reset', now', key_id)
                           IN  answer.result \/ answer.last_reset # last_reset' ]_vars

\* ---- the interceptor's queues

\* C27: every step of the interceptor that enqueues a verdict, from a passing
\* "/getcaptcha/" answer or from a "/checkcaptcha/" answer, leaves the verdict
\* queue holding exactly one entry, the verdict just delivered.
C27_VerdictQueueHoldsLastOnly ==
    [][ /\ \A p \in Payloads \cup {None} :
              HandleGetCaptchaJson("pass", p) => captcha_response_queue' = << [is_pass |-> TRUE] >>
        /\ \A v \in Verdicts :
              HandleCheckCaptcha(v) => captcha_response_queue' = << v >> ]_vars

\* C28: a payload delivery that cannot be decoded appends exactly one None to
\* the payload queue and changes neither the verdict queue nor the session;
\* a review that takes a None payload from the queue ends the dispatch with
\* False at once, which counts one reset, and never starts solving.
C28_NullPayloadIsDispatchFailure ==
    [][ /\ (HandleGetCaptchaBinary(None) \/ HandleGetCaptchaJson("request_config", None))
              => /\ captcha_payload_queue' = Append(captcha_payload_queue, None)
                 /\ UNCHANGED <<captcha_response_queue, state, pc, result, reset_count,
                                challenge_attempts, captcha_payload>>
        /\ \A typed \in BOOLEAN, clickRaises \in BOOLEAN :
              (/\ ReviewChallengeType(typed, clickRaises)
               /\ captcha_payload_queue # << >>
               /\ Head(captcha_payload_queue) = None)
              => /\ result' = "false"
                 /\ reset_count' = reset_count + 1
                 /\ state' \in {"INIT", "FAILURE"}
                 /\ pc' = "loop"
                 /\ captcha_payload_queue' = Tail(captcha_payload_queue)
                 /\ UNCHANGED captcha_payload ]_vars

\* a review is about to take a None payload that the interceptor enqueued
C28_Witness ==
    /\ pc = "review"
    /\ captcha_payload_queue # << >>
    /\ Head(captcha_payload_queue) = None

\* ---- the session loop

\* C31: at most one _solve_captcha_flow is running at any time, and none is
\* running when the loop is at its head: a dispatch that returned, raised or
\* ran into the 120 s limit has ended before the next iteration can start
\* another one.
C31_OneDispatchInFlight ==
    /\ in_flight <= 1
    /\ pc \in {"loop", "race", "finish", "returned"} => in_flight = 0
    /\ pc \in {"review", "solve"} => in_flight = 1

\* a dispatch ran into the time limit and the loop is back at its head
C31_Witness ==
    /\ result = "timeout"
    /\ pc = "loop"
    /\ dispatch_calls >= 1
    /\ in_flight = 0

\* ---- the providers' ring and retry budget

\* C32: starting from credential 0 and model 0, the i-th position of the ring
\* is credential i mod K and model (i div K) mod M: the credential advances
\* with every rotation and the model when the credentials wrap (with every
\* rotation when there is one credential); K*M rotations visit every pair
\* of credential and model exactly once and end at credential 0, model 0.
C32_RingVisitsEveryPairOnce ==
    (provider.constructed /\ "visited" \in DOMAIN provider)
    => LET K == Len(provider.api_keys)
           M == Len(provider.models)
           visited == provider.visited
       IN  /\ \A i \in 1..Len(visited) :
                  visited[i] = <<(i - 1) % K, ((i - 1) \div K) % M>>
           /\ visited[Len(visited)] = <<provider.key_index, provider.model_index>>
           /\ provider.rotations = K * M
                  => /\ provider.key_index = 0 /\ provider.model_index = 0
                     /\ {visited[i] : i \in 1..(K * M)} = (0..(K - 1)) \X (0..(M - 1))
                     /\ \A i, j \in 1..(K * M) : visited[i] = visited[j] => i = j

\* a ring of several credentials and several models has made its full turn
C32_Witness ==
    /\ provider.constructed /\ "visited" \in DOMAIN provider
    /\ Len(provider.api_keys) > 1 /\ Len(provider.models) > 1
    /\ provider.rotations = Len(provider.api_keys) * Len(provider.models)

\* C33: a call of GeminiProvider.generate_with_media makes at most 30
\* attempts and one of GroqProvider.generate_with_images at most 15; an
\* attempt that fails when they are spent ends the call with the error, and
\* a call never makes a further attempt after that.
C33_AttemptsBounded ==
    [][ (provider.constructed /\ provider'.constructed /\ "stop" \in DOMAIN provider')
        => LET limit == IF provider'.kind = "groq" THEN 15 ELSE 30
           IN  /\ provider'.attempt_number <= limit
               /\ (/\ provider.pc \in {"attempt", "request"}
                   /\ provider.attempt_number = limit
                   /\ provider' # provider
                   /\ provider'.pc # "request"
                   /\ provider'.outcome # "ok")
                  => /\ provider'.pc = "raised"
                     /\ provider'.attempt_number = limit ]_vars

\* every attempt of a Gemini call found its identity exhausted and the call
\* has ended with the error after the thirtieth
C33_Witness ==
    /\ provider.constructed /\ "stop" \in DOMAIN provider
    /\ provider.kind = "gemini"
    /\ provider.pc = "raised"
    /\ provider.attempt_number = 30
    /\ provider.outcome = "pre_checked"

\* ---- the pass after a payload won the race

\* C34: a dispatch that starts in CHALLENGE_PENDING while the payload queue is
\* empty works on the payload the race accepted: when the type of that
\* payload can be determined the dispatch goes on to CHALLENGING with the
\* accepted payload and counts no reset.
C34_PendingDispatchUsesAcceptedPayload ==
    [][ \A clickRaises \in BOOLEAN :
          (/\ ReviewChallengeType(TRUE, clickRaises)
           /\ state = "CHALLENGE_PENDING"
           /\ captcha_payload \in Payloads
           /\ captcha_payload_queue = << >>)
          => /\ state' = "CHALLENGING"
             /\ captcha_payload' = captcha_payload
             /\ reset_count' = reset_count ]_vars

\* ---- processes sharing the ledger: the clearing of a cooldown

\* C35: the UPDATE with which is_exhausted clears a cooldown it found
\* expired leaves a cooldown alone that is running when the UPDATE is made,
\* which another process has written since the row was read.
C35_ClearingKeepsNewerCooldown ==
    [][ \A p \in Procs :
          (/\ ClearCooldown(p)
           /\ quotas[RaceKey] # NoRow
           /\ quotas[RaceKey].temp_exhausted_until # NULL
           /\ quotas[RaceKey].temp_exhausted_until # proc[p].temp_exhausted_until
           /\ cooldown_active(now, quotas[RaceKey].temp_exhausted_until))
          => quotas'[RaceKey].temp_exhausted_until = quotas[RaceKey].temp_exhausted_until ]_vars

\* ---- the pre-check of the Gemini provider

\* C36 as stated: an attempt of the Gemini provider whose identity the
\* ledger reports exhausted makes no request: it moves the ring (whenever
\* more than one identity is configured), ends as a failed attempt, and
\* leaves the ledger as it was.
C36_ExhaustedIdentityNeverCalled ==
    [][ (/\ GeminiPreCheck
         /\ last_call'.result)
        => /\ provider'.pc \in {"attempt", "raised"}
           /\ provider'.used = provider.used
           /\ provider'.outcome = "pre_checked"
           /\ Len(provider.api_keys) * Len(provider.models) > 1
                  => \/ provider'.key_index # provider.key_index
                     \/ provider'.model_index # provider.model_index
           /\ marks' = marks
           /\ quotas' = quotas
           /\ last_reset' = last_reset ]_vars

\* C36, amended: such an attempt makes no request, moves the ring and ends
\* as a failed attempt, and no mark_* is made; the one write the ledger can
\* see is is_exhausted's own: an expired cooldown of that identity is set to
\* NULL when the answer True comes from its failure count.
C36_ExhaustedIdentityNeverCalledNoMark ==
    [][ (/\ GeminiPreCheck
         /\ last_call'.result)
        => LET key_id == last_call'.key_id
               row == quotas[key_id]
           IN  /\ provider'.pc \in {"attempt", "raised"}
               /\ provider'.used = provider.used
               /\ provider'.outcome = "pre_checked"
               /\ Len(provider.api_keys) * Len(provider.models) > 1
                      => \/ provider'.key_index # provider.key_index
                         \/ provider'.model_index # provider.model_index
               /\ marks' = marks
               /\ last_reset' = last_reset
               /\ row # NoRow
               /\ \A k \in KeyIds \ {key_id} : quotas'[k] = quotas[k]
               /\ quotas'[key_id] = row
                  \/ /\ row.temp_exhausted_until # NULL
                     /\ now >= fromisoformat(row.temp_exhausted_until)
                     /\ row.failure_count >= 3
                     /\ quotas'[key_id] = [row EXCEPT !.temp_exhausted_until = NULL] ]_vars

\* the pre-check has just found the identity of the ring exhausted and
\* skipped it: the ring has moved on and nothing was requested with it
C36_Witness ==
    /\ provider.constructed /\ provider.kind = "gemini"
    /\ last_call.method = "is_exhausted" /\ last_call.result
    /\ provider.outcome = "pre_checked"
    /\ provider.pc = "attempt"
    /\ provider.key_index = 1
    /\ provider.used = NULL

\* ---- the reset budget and the loop head

\* C37: reset_count never passes MAX_RESETS + 1; the step that takes it past
\* MAX_RESETS sets the state to FAILURE, and the state is FAILURE whenever the
\* budget is overdrawn, so no dispatch and no SUBMITTED wait is running or
\* started with reset_count > MAX_RESETS.
C37_ResetBudgetNeverOverrun ==
    [][ /\ reset_count' <= MAX_RESETS + 1
        /\ (reset_count' > MAX_RESETS /\ reset_count <= MAX_RESETS) => state' = "FAILURE"
        /\ reset_count' > MAX_RESETS => state' = "FAILURE"
        /\ pc' \in {"review", "solve", "race"} => reset_count' <= MAX_RESETS ]_vars

\* the payload that won the race overdrew the budget: the session has failed
\* with reset_count = MAX_RESETS + 1 and the loop is about to end
C37_Witness ==
    /\ MAX_RESETS >= 1
    /\ reset_count = MAX_RESETS + 1
    /\ race = "payload"
    /\ state = "FAILURE"
    /\ pc = "loop"

\* C38: whenever the loop is at its head the state is INIT, CHALLENGE_PENDING,
\* SUCCESS or FAILURE, and an iteration that counts an attempt within the
\* limit starts a dispatch.
C38_LoopHeadStates ==
    [][ /\ pc' = "loop" => state' \in {"INIT", "CHALLENGE_PENDING", "SUCCESS", "FAILURE"}
        /\ (/\ challenge_attempts' = challenge_attempts + 1
            /\ challenge_attempts' <= MAX_CHALLENGE_ATTEMPTS)
           => /\ pc' = "review"
              /\ dispatch_calls' = dispatch_calls + 1 ]_vars

\* a dispatch went through CHALLENGING and SUBMITTED and a verdict that did
\* not pass brought the loop back to its head in INIT
C38_Witness ==
    /\ pc = "loop"
    /\ result = "true"
    /\ race = "verdict"
    /\ state = "INIT"
    /\ challenge_attempts >= 1

\* ---- verdicts left over from before

\* C39: the session start empties both queues and the start of every dispatch
\* pass empties the verdict queue, so while a dispatch or the wait after it
\* runs no entry of the verdict queue dates from before the pass began, and
\* the verdict the wait takes was enqueued during the pass.
C39_DecidingVerdictIsFresh ==
    [][ /\ StartSession => (captcha_response_queue' = << >> /\ captcha_payload_queue' = << >>)
        /\ (pc = "loop" /\ pc' = "review") => captcha_response_queue' = << >>
        /\ pc' \in {"review", "solve", "race"} => stale_verdicts' = 0
        /\ (pc = "race" /\ race' = "verdict") => stale_verdicts = 0 ]_vars

C39_Witness ==
    /\ race = "verdict"
    /\ verdict_dequeued
    /\ dispatch_calls >= 2
    /\ stale_verdicts = 0

\* ---- instability does not wear off

\* C40: a key whose row holds failure_count >= 3 keeps it through every call
\* and every passage of time except a mark_success on that key and a daily
\* reset (mark_exhausted, mark_temporary_exhaustion and the clearing of an
\* expired cooldown leave it alone), and every is_exhausted call on such a
\* key that runs no daily reset answers True.
C40_InstabilityStaysUntilSuccessOrReset ==
    [][ \A k \in KeyIds :
          ( /\ quotas[k] # NoRow
            /\ quotas[k].failure_count >= 3
            /\ last_reset' = last_reset )
          => /\ ~( /\ marks' = marks + 1
                   /\ last_call' = [method |-> "mark_success", key_id |-> k] )
                => /\ quotas'[k] # NoRow
                   /\ quotas'[k].failure_count >= 3
             /\ ( /\ now' = now
                  /\ marks' = marks
                  /\ last_call'.method = "is_exhausted"
                  /\ last_call'.key_id = k )
                => last_call'.result = TRUE ]_vars

\* C40 witness: is_exhausted answered True for a key with three failures
\* whose last mark was a cooldown that has since expired and been cleared,
\* with no daily reset in between.
C40_Witness ==
    \E k \in KeyIds :
        /\ last_call = [method |-> "is_exhausted", key_id |-> k, result |-> TRUE]
        /\ quotas[k] # NoRow
        /\ quotas[k].failure_count >= 3
        /\ quotas[k].temp_exhausted_until = NULL
        /\ history[k].last_mark.method \in {"mark_exhausted", "mark_temporary_exhaustion"}
        /\ history[k].last_mark.epoch = last_reset
        /\ now >= fromisoformat(history[k].last_mark.until)

====
